---- MODULE Spec2Model ----
(***************************************************************************)
(* Envoy: environment composition (EnvironmentManager) and command         *)
(* reference resolution (CommandRegistry).                                 *)
(*                                                                         *)
(* Strings are TLA+ strings; TLC evaluates Len, \o, SubSeq, Head and Tail  *)
(* on them, so the scanning code below works character by character as    *)
(* the regular expression of the source does.                              *)
(***************************************************************************)
EXTENDS Integers, Sequences, FiniteSets, TLC

(* ------------------------------------------------------------------ *)
(* Bounds of the model                                                 *)
(* ------------------------------------------------------------------ *)

\* Longest list of environment files handed to one composition.
MaxFiles == 2

\* Longest environment list of a command definition.
MaxEnvLen == 2

\* Most pieces a value string handed to expand_env_value is put together from.
MaxPieces == 3

\* Longest list of bundles handed to load_from_bundles.
MaxBundles == 3

\* Most calls made on one Environment instance.
MaxCalls == 3

(* ------------------------------------------------------------------ *)
(* Generic helpers                                                     *)
(* ------------------------------------------------------------------ *)

Range(s) == { s[i] : i \in 1..Len(s) }

\* All sequences over S of length at most n.
SeqsUpTo(S, n) == UNION { [1..k -> S] : k \in 0..n }

\* A Python dict as a function; d with key k bound to v (dict.__setitem__).
DictSet(d, k, v) == [x \in (DOMAIN d) \cup {k} |-> IF x = k THEN v ELSE d[x]]

\* dict.update(other): other's bindings win.
DictUpdate(d, other) ==
    [x \in (DOMAIN d) \cup (DOMAIN other) |-> IF x \in DOMAIN other THEN other[x] ELSE d[x]]

\* The restriction of a dict to the keys in S.
DictRestrict(d, S) == [x \in (DOMAIN d) \cap S |-> d[x]]

EmptyDict == [x \in {} |-> ""]

CharAt(s, i) == IF i >= 1 /\ i <= Len(s) THEN SubSeq(s, i, i) ELSE ""

\* str.startswith(prefix)
StartsWith(s, prefix) ==
    Len(s) >= Len(prefix) /\ SubSeq(s, 1, Len(prefix)) = prefix

\* str.endswith(suffix)
EndsWith(s, suffix) ==
    Len(s) >= Len(suffix) /\ SubSeq(s, Len(s) - Len(suffix) + 1, Len(s)) = suffix

\* s[n:]
DropPrefix(s, n) == SubSeq(s, n + 1, Len(s))

\* '.' in s
RECURSIVE HasCharFrom(_, _, _)
HasCharFrom(s, c, i) ==
    IF i > Len(s) THEN FALSE
    ELSE IF SubSeq(s, i, i) = c THEN TRUE
    ELSE HasCharFrom(s, c, i + 1)

HasChar(s, c) == HasCharFrom(s, c, 1)

\* sep.join(items)
RECURSIVE JoinFrom(_, _, _)
JoinFrom(items, sep, i) ==
    IF i > Len(items) THEN ""
    ELSE IF i = Len(items) THEN items[i]
    ELSE items[i] \o sep \o JoinFrom(items, sep, i + 1)

Join(items, sep) == JoinFrom(items, sep, 1)

(* ------------------------------------------------------------------ *)
(* expand_env_value: ${NAME} and {$NAME} references                    *)
(* ------------------------------------------------------------------ *)

Letters ==
    { "A","B","C","D","E","F","G","H","I","J","K","L","M",
      "N","O","P","Q","R","S","T","U","V","W","X","Y","Z",
      "a","b","c","d","e","f","g","h","i","j","k","l","m",
      "n","o","p","q","r","s","t","u","v","w","x","y","z" }

Digits == { "0","1","2","3","4","5","6","7","8","9" }

\* [A-Za-z_]
IdentStart == Letters \cup {"_"}

\* [A-Za-z0-9_]
IdentChar == IdentStart \cup Digits

\* The index of the last character of the longest run of [A-Za-z0-9_]
\* starting at i (i - 1 when there is none): the greedy star of the pattern.
RECURSIVE IdentRunEnd(_, _)
IdentRunEnd(s, i) ==
    IF i <= Len(s) /\ CharAt(s, i) \in IdentChar
    THEN IdentRunEnd(s, i + 1)
    ELSE i - 1

\* [A-Za-z_][A-Za-z0-9_]* in full (re.fullmatch of the name pattern).
IsIdentifier(s) ==
    /\ Len(s) >= 1
    /\ CharAt(s, 1) \in IdentStart
    /\ IdentRunEnd(s, 1) = Len(s)

\* The pattern's match at position i, if any: `${NAME}` or `{$NAME}`.
\* Both alternatives are two opening characters, a name and a closing brace;
\* no identifier character is a brace, so the greedy name never backtracks.
MatchAt(s, i) ==
    LET open == SubSeq(s, i, IF i + 1 <= Len(s) THEN i + 1 ELSE Len(s))
        j    == IdentRunEnd(s, i + 2)
    IN  IF /\ open \in {"${", "{$"}
           /\ CharAt(s, i + 2) \in IdentStart
           /\ CharAt(s, j + 1) = "}"
        THEN [ok |-> TRUE, name |-> SubSeq(s, i + 2, j), next |-> j + 2]
        ELSE [ok |-> FALSE, name |-> "", next |-> i + 1]

\* A replacer that asks current_env before the special variables.
Replacer_EnvFirst(var_name, current_env, special_vars) ==
    IF var_name \in DOMAIN current_env THEN current_env[var_name]
    ELSE IF var_name \in DOMAIN special_vars THEN special_vars[var_name]
    ELSE ""

\* A replacer that scans the value it found once more.
Replacer_Rescan(var_name, current_env, special_vars) ==
    LET v == IF var_name \in DOMAIN special_vars THEN special_vars[var_name]
             ELSE IF var_name \in DOMAIN current_env THEN current_env[var_name]
             ELSE ""
        m == MatchAt(v, 1)
    IN  IF m.ok /\ m.next = Len(v) + 1
        THEN (IF m.name \in DOMAIN special_vars THEN special_vars[m.name]
              ELSE IF m.name \in DOMAIN current_env THEN current_env[m.name]
              ELSE "")
        ELSE v

\* replacer(match): special variables first, then current_env, else ''.
Replacer(var_name, current_env, special_vars) ==
    IF var_name \in DOMAIN special_vars THEN special_vars[var_name]
    ELSE IF var_name \in DOMAIN current_env THEN current_env[var_name]
    ELSE ""

\* A substitution that loses a dollar sign that starts no reference.
RECURSIVE ExpandFrom_DropsDollar(_, _, _, _)
ExpandFrom_DropsDollar(value, i, current_env, special_vars) ==
    IF i > Len(value) THEN ""
    ELSE LET m == MatchAt(value, i)
         IN  IF m.ok
             THEN Replacer(m.name, current_env, special_vars)
                    \o ExpandFrom_DropsDollar(value, m.next, current_env, special_vars)
             ELSE (IF CharAt(value, i) = "$" THEN "" ELSE CharAt(value, i))
                    \o ExpandFrom_DropsDollar(value, i + 1, current_env, special_vars)

\* pattern.sub(replacer, value): leftmost non-overlapping matches, one pass.
RECURSIVE ExpandFrom(_, _, _, _)
ExpandFrom(value, i, current_env, special_vars) ==
    IF i > Len(value) THEN ""
    ELSE LET m == MatchAt(value, i)
         IN  IF m.ok
             THEN Replacer(m.name, current_env, special_vars)
                    \o ExpandFrom(value, m.next, current_env, special_vars)
             ELSE CharAt(value, i)
                    \o ExpandFrom(value, i + 1, current_env, special_vars)

expand_env_value(value, current_env, special_vars) ==
    ExpandFrom(value, 1, current_env, special_vars)

(* ------------------------------------------------------------------ *)
(* normalize_path, process_env_value, get_special_variables            *)
(* ------------------------------------------------------------------ *)

\* path_sep = ';' if os.name == 'nt' else ':'
PathSep(name_of_os) == IF name_of_os = "nt" THEN ";" ELSE ":"

\* A JSON value of an environment entry: a string or a list of strings.
StrV(s) == [t |-> "str", s |-> s, l |-> <<>>]
ListV(l) == [t |-> "list", s |-> "", l |-> l]

\* process_env_value: a list is joined with the path separator, anything
\* else is taken as its string; the result is expanded once.
process_env_value(value, merged, special_vars, name_of_os) ==
    LET str_value == IF value.t = "list"
                     THEN Join(value.l, PathSep(name_of_os))
                     ELSE value.s
    IN  expand_env_value(str_value, merged, special_vars)

\* A path is the sequence of its components below the root.
PathStr(comps) == "/" \o Join(comps, "/")

\* The nearest ancestor directory named envoy_env: the greatest index k of a
\* directory component with that name (0 when there is none).
RECURSIVE EnvoyEnvIndex(_, _)
EnvoyEnvIndex(comps, k) ==
    IF k < 1 THEN 0
    ELSE IF comps[k] = "envoy_env" THEN k
    ELSE EnvoyEnvIndex(comps, k - 1)

get_special_variables(comps) ==
    LET parent == SubSeq(comps, 1, Len(comps) - 1)
        k      == EnvoyEnvIndex(parent, Len(parent))
        package_env_dir == IF k > 0 THEN SubSeq(comps, 1, k) ELSE parent
        package_root    == IF k > 0 THEN SubSeq(comps, 1, k - 1) ELSE parent
    IN  [ __FILE__        |-> PathStr(comps),
          __BUNDLE__      |-> PathStr(package_root),
          __BUNDLE_ENV__  |-> PathStr(package_env_dir),
          __BUNDLE_NAME__ |-> IF Len(package_root) > 0
                              THEN package_root[Len(package_root)] ELSE "" ]

(* ------------------------------------------------------------------ *)
(* Environment files as json.load returns them                         *)
(* ------------------------------------------------------------------ *)

\* One element of an entry list: a [key, value] pair, or (pair = FALSE)
\* something that is not a two-element list.
Entry(k, v) == [pair |-> TRUE, key |-> k, value |-> v]
BadEntry == [pair |-> FALSE, key |-> "", value |-> StrV("")]

\* top: the JSON document's type ("dict", "list", "scalar").
\* has_environment, env_kind: whether a dict has the "environment" key and
\*   the type of its value ("dict", "list", "scalar").
\* entries: a flat dict's items, a bare list's elements, or the elements
\*   (items) of a structured dict's "environment".
\* allowlist: a dict's "environment_allowlist" value ([] when absent).
EnvFile(comps, exists, json_ok, top, has_environment, env_kind, entries, allow) ==
    [ path |-> comps, exists |-> exists, json_ok |-> json_ok, top |-> top,
      has_environment |-> has_environment, env_kind |-> env_kind,
      entries |-> entries, allowlist |-> allow ]

FlatFile(name, entries) ==
    EnvFile(<<"b1", "envoy_env", name>>, TRUE, TRUE, "dict", FALSE, "dict", entries, <<>>)

\* file_data.get('environment_allowlist', []) of the pre-pass, which asks only
\* whether the document is a dict.
FileAllowlist(f) == IF f.top = "dict" THEN f.allowlist ELSE <<>>

(* ------------------------------------------------------------------ *)
(* Inputs of a composition                                             *)
(* ------------------------------------------------------------------ *)

_CORE_ENV_VARS ==
    { "USERNAME", "USERPROFILE", "USERDOMAIN", "USERDOMAIN_ROAMINGPROFILE",
      "HOMEDRIVE", "HOMEPATH", "APPDATA", "LOCALAPPDATA", "PUBLIC",
      "TEMP", "TMP", "TMPDIR", "SystemRoot", "SystemDrive", "windir",
      "ProgramFiles", "ProgramFiles(x86)", "ProgramW6432",
      "CommonProgramFiles", "CommonProgramFiles(x86)", "CommonProgramW6432",
      "COMPUTERNAME", "OS", "PROCESSOR_ARCHITECTURE", "PROCESSOR_IDENTIFIER",
      "PROCESSOR_LEVEL", "PROCESSOR_REVISION", "NUMBER_OF_PROCESSORS",
      "COMSPEC", "TERM", "TERM_PROGRAM", "COLORTERM",
      "HOME", "USER", "LOGNAME", "SHELL",
      "LANG", "LC_ALL", "LC_CTYPE", "LC_MESSAGES",
      "XDG_RUNTIME_DIR", "XDG_CONFIG_HOME", "XDG_DATA_HOME", "XDG_CACHE_HOME" }

_ENVOY_ENV_VARS == { "ENVOY_BNDL_ROOTS", "ENVOY_ALLOWLIST", "ENVOY_BUNDLES_CONFIG" }

\* Host process environments (os.environ): SECRET is in no allowlist; HOME
\* is a core variable, ENVOY_BNDL_ROOTS one of envoy's own; P is a variable
\* the files and allowlists name.
HostEnvs ==
    { DictUpdate([SECRET |-> "hush", ENVOY_BNDL_ROOTS |-> "/r"], DictRestrict([HOME |-> "/h", P |-> "seed"], S))
        : S \in SUBSET {"HOME", "P"} }

\* Host environments a second run of the same call may meet instead of
\* host h: h itself, and h with another SECRET or P, or without them.
OtherHostEnvs(h) ==
    { h,
      DictSet(h, "SECRET", "other"), DictRestrict(h, DOMAIN h \ {"SECRET"}),
      DictSet(h, "P", "other"), DictRestrict(h, DOMAIN h \ {"P"}) }

\* Caller allowlists (EnvironmentManager.allowlist).
CallerAllowlists == { {}, {"P"} }

\* Base maps handed to load_env_from_files by a direct caller.
BaseMaps == { EmptyDict, [P |-> "base"], [P |-> ""] }

\* Explicit env dicts handed to prepare_environment (the empty one stands
\* for None as well: both are falsy).
ExplicitEnvs == { EmptyDict, [X |-> "1"] }

\* The environment files on disk.
FileCatalogue ==
    { FlatFile("assign.json",  <<Entry("P", StrV("a"))>>),
      FlatFile("clear.json",   <<Entry("P", StrV(""))>>),
      FlatFile("append.json",  <<Entry("+=P", ListV(<<"b", "c">>))>>),
      FlatFile("prepend.json", <<Entry("^=P", StrV("d"))>>),
      FlatFile("default.json", <<Entry("?=P", StrV("e"))>>),
      FlatFile("expand.json",  <<Entry("Q", StrV("${P}/{$__BUNDLE_NAME__}")),
                                 Entry("+=Q", StrV("${SECRET}"))>>),
      \* structured, "environment" a pair list, with an allowlist
      EnvFile(<<"b2", "envoy_env", "allow.json">>, TRUE, TRUE, "dict", TRUE, "list",
              <<Entry("?=P", StrV("dflt"))>>, <<"P">>),
      \* structured, "environment" a dict, allowlist only
      EnvFile(<<"b2", "envoy_env", "only_allow.json">>, TRUE, TRUE, "dict", TRUE, "dict",
              <<>>, <<"P", "HOME">>),
      \* bare pair list with a repeated key
      EnvFile(<<"tmp", "pairs.json">>, TRUE, TRUE, "list", FALSE, "dict",
              <<Entry("P", StrV("x")), Entry("^=P", StrV("${P}")), Entry("P", StrV("y"))>>, <<>>),
      \* a pair list whose second element is no pair
      EnvFile(<<"tmp", "badpair.json">>, TRUE, TRUE, "list", FALSE, "dict",
              <<Entry("P", StrV("z")), BadEntry>>, <<>>),
      \* "environment" neither list nor dict, with an allowlist
      EnvFile(<<"tmp", "badenv.json">>, TRUE, TRUE, "dict", TRUE, "scalar", <<>>, <<"P">>),
      \* a JSON scalar
      EnvFile(<<"tmp", "scalar.json">>, TRUE, TRUE, "scalar", FALSE, "dict", <<>>, <<>>),
      \* not JSON
      EnvFile(<<"tmp", "broken.json">>, TRUE, FALSE, "scalar", FALSE, "dict", <<>>, <<>>),
      \* not on disk
      EnvFile(<<"tmp", "missing.json">>, FALSE, FALSE, "scalar", FALSE, "dict", <<>>, <<>>) }

\* Files that try the lookup of references and the reading of keys.
ReferenceFiles ==
    { \* a variable defined and then referenced, a reference to a host
      \* variable that nothing seeds, and a variable named like a special one
      FlatFile("refs.json",    <<Entry("Y", StrV("fromfile")),
                                 Entry("Z", StrV("${Y}")),
                                 Entry("U", StrV("${SECRET}")),
                                 Entry("__FILE__", StrV("fake")),
                                 Entry("W", StrV("${__FILE__}"))>>),
      \* a flat dict with a key named environment_allowlist
      EnvFile(<<"b1", "envoy_env", "flatallow.json">>, TRUE, TRUE, "dict", FALSE, "dict",
              <<Entry("environment_allowlist", ListV(<<"P">>)), Entry("Q", StrV("${P}"))>>,
              <<"P">>),
      \* keys that are an operator and nothing else, or two operators
      FlatFile("badkeys.json", <<Entry("+=", StrV("v")), Entry("+=?=X", StrV("w"))>>) }

\* Those files, with files of the catalogue that assign, append, refer to
\* earlier entries and to special variables, and declare an allowlist.
ReferenceCatalogue ==
    ReferenceFiles \cup
    { f \in FileCatalogue :
        f.path[Len(f.path)] \in { "assign.json", "append.json", "pairs.json",
                                   "expand.json", "allow.json" } }

\* Base maps for those files: one has a key named like a special variable.
ReferenceBaseMaps == BaseMaps \cup { [__BUNDLE_NAME__ |-> "mine"] }

(* ------------------------------------------------------------------ *)
(* State                                                               *)
(* ------------------------------------------------------------------ *)

VARIABLES
    \* --- inputs of one EnvironmentManager call ---
    os_environ,      \* os.environ
    os_name,         \* os.name: "nt" or "posix"
    inherit_env,     \* EnvironmentManager.inherit_env
    allowlist,       \* EnvironmentManager.allowlist
    env_files,       \* the env_files argument, each file as parsed
    entry_point,     \* "prepare_environment" or "load_env_from_files"
    env,             \* prepare_environment's env argument, once it is read
    \* --- dict objects; a variable holding a dict holds its index in heap ---
    heap,
    base_env,        \* load_env_from_files' base_env argument
    merged_env,      \* its working map (0: not yet created)
    result_env,      \* prepare_environment's result_env (0: none)
    file_env,        \* what load_env_from_files returned (0: nothing yet)
    \* --- control ---
    pc,
    error,           \* the WrapperError raised, "" if none
    file_idx,        \* main pass: index of the file being processed
    entry_idx,       \* index of the next item of that file
    \* --- locals of the entry loop, as left by the last iteration ---
    key,
    var_name,
    op_mode,         \* "assign", "append", "prepend", "default"
    processed_value,
    \* --- history ---
    base_at_call,    \* contents of base_env when load_env_from_files was called
    env_before,      \* contents of merged_env before the last entry was applied
    applied          \* the entries applied so far, in order

VARIABLES
    \* --- CommandRegistry and one resolution against it ---
    commands,        \* registry._commands: name -> [environment, envoy_env_dir]
    command_name,    \* the command asked for
    caller,          \* "" until called; then "resolve_environment" or "_collect_env_files"
    stack,           \* the active resolve_environment calls, innermost last
    resolved_env,    \* the list the outermost call returned
    res_error,       \* the exception raised, "" if none
    res_pc,
    disk,            \* the files on disk, once the collector consults it
    collected        \* _collect_env_files' env_files

VARIABLES
    \* --- one use of expand_env_value on its own ---
    tmpl_pieces,     \* the pieces the value string is put together from
    tmpl,            \* the value argument
    lookup_env,      \* the current_env argument
    lookup_special,  \* the special_vars argument
    expanded,        \* what the call returned
    reexpanded,      \* what a second call returned for that result
    exp_pc

VARIABLES
    \* --- load_env_from_files called by several threads at once ---
    runs             \* thread -> the position and the locals of its call

VARIABLES
    \* --- a CommandRegistry being loaded ---
    bundles,         \* the list handed to load_from_bundles
    bundle_idx,      \* its loop: index of the next bundle
    _commands,       \* registry._commands: name -> CommandDefinition
    _bundle_sources, \* registry._bundle_sources: name -> bundle id or 'local'
    load_pc,
    last_load        \* history: the last call of load_from_file

VARIABLES
    \* --- what one Environment instance finds around it ---
    discovered,      \* the bundles discovery returns, for the roots given or set
    bare_file,       \* commands_file or find_commands_file(): a bare commands.json
    env_disk,        \* the state of the environment files on disk
    platform,        \* os.name as _popen reads it
    \* --- the instance ---
    _command,        \* Environment._command
    _env,            \* Environment._env: 0 for None, else the dict object
    _cmd_def,        \* Environment._cmd_def
    \* --- history ---
    calls,           \* the number of calls made on the instance
    discoveries,     \* how often bundle discovery has run
    prepared,        \* how often prepare_environment has run
    build_returns,   \* what the calls of build() returned, in order
    last_build,      \* what the last build that ran found and collected
    spawned,         \* the last process started: what was asked and its argv
    api_error        \* the exception the last call raised, "" if none

VARIABLES
    \* --- the envoy.proc API as a caller uses it ---
    request          \* the last call: the function, its cmd list and its keywords

VARIABLES
    \* --- the command line: --info ---
    attrs,           \* the attributes the registry's CommandDefinition objects have
    listed,          \* the entries printed under "Environment files:", in order
    info_idx,        \* the loop over cmd.environment: index of the next entry
    info_rc,         \* what show_command_info returned, -1 before it returns
    info_pc

VARIABLES
    \* --- the legacy ApplicationWrapper preparing the child's environment ---
    leg_environ,     \* os.environ
    leg_os,          \* os.name
    leg_inherit,     \* config.inherit_env
    leg_files,       \* config.env_files, as they are on disk
    leg_explicit,    \* config.env
    leg_result,      \* what _prepare_environment returned or raised
    leg_pc

VARIABLES
    \* --- ApplicationWrapper.run() and the CLI's run_command around it ---
    run_config,                 \* the WrapperConfig of the run
    run_via,                    \* "run": run() called directly; "run_command": through the CLI
    run_pc,                     \* where the call stands
    _process,                   \* self._process is set
    _interrupted,               \* self._interrupted
    sigint_handler,             \* the handler installed for SIGINT
    _original_sigint_handler,   \* the handler _signal_handler_context saved
    child_state,                \* "none", "running", "quiet" (pipes closed), "exited"
    child_code,                 \* the child's exit status once it has exited
    run_result,                 \* the ExecutionResult of the run
    run_pending,                \* the exception travelling out of the try block
    post_runs,                  \* the state of the child at each call of post_run
    run_trail,                  \* what happened on the way
    run_end,                    \* how run() ended
    run_rc                      \* what run_command returned

VARIABLES
    \* --- several threads calling one Environment instance ---
    thr_pc,          \* where each thread stands in build() / spawn()
    thr_op,          \* the method each thread called
    thr_built,       \* what a thread computed and has yet to store
    assert_failed    \* the threads whose assert in spawn() failed

reg_vars ==
    << commands, command_name, caller, stack, resolved_env, res_error, res_pc,
       disk, collected >>

env_vars ==
    << os_environ, os_name, inherit_env, allowlist, env_files, entry_point, env,
       heap, base_env, merged_env, result_env, file_env, pc, error, file_idx,
       entry_idx, key, var_name, op_mode, processed_value, base_at_call,
       env_before, applied >>

exp_vars ==
    << tmpl_pieces, tmpl, lookup_env, lookup_special, expanded, reexpanded, exp_pc >>

par_vars == << runs >>

ld_vars == << bundles, bundle_idx, _commands, _bundle_sources, load_pc, last_load >>

bld_vars ==
    << discovered, bare_file, env_disk, platform, _command, _env, _cmd_def,
       calls, discoveries, prepared, build_returns, last_build, spawned, api_error >>

api_vars == << request >>

cli_vars == << attrs, listed, info_idx, info_rc, info_pc >>

leg_vars == << leg_environ, leg_os, leg_inherit, leg_files, leg_explicit, leg_result, leg_pc >>

run_vars ==
    << run_config, run_via, run_pc, _process, _interrupted, sigint_handler,
       _original_sigint_handler, child_state, child_code, run_result, run_pending,
       post_runs, run_trail, run_end, run_rc >>

thr_vars == << thr_pc, thr_op, thr_built, assert_failed >>

\* The variables of the callers around the core.
more_vars == << api_vars, cli_vars, leg_vars, run_vars, thr_vars >>

\* What an EnvironmentManager call, a resolution, a call of the expander on
\* its own, and the loading of a registry leave alone.
not_env_vars == << reg_vars, exp_vars, par_vars, ld_vars, bld_vars, more_vars >>
not_reg_vars == << env_vars, exp_vars, par_vars, ld_vars, bld_vars, more_vars >>
not_exp_vars == << env_vars, reg_vars, par_vars, ld_vars, bld_vars, more_vars >>
not_ld_vars  == << env_vars, reg_vars, exp_vars, par_vars, bld_vars, more_vars >>
not_bld_vars == << env_vars, reg_vars, exp_vars, par_vars, ld_vars, more_vars >>

\* What a caller around the core leaves alone of the core.
core_but_bld == << env_vars, reg_vars, exp_vars, par_vars, ld_vars >>
core_but_reg == << env_vars, exp_vars, par_vars, ld_vars, bld_vars >>

\* What the threads of load_env_from_files leave alone, their shared
\* arguments apart.
not_env_par_vars == << reg_vars, exp_vars, ld_vars, bld_vars, more_vars >>

\* The variables of an EnvironmentManager call other than the heap.
env_but_heap ==
    << os_environ, os_name, inherit_env, allowlist, env_files, entry_point, env,
       base_env, merged_env, result_env, file_env, pc, error, file_idx,
       entry_idx, key, var_name, op_mode, processed_value, base_at_call,
       env_before, applied >>

vars == << env_vars, reg_vars, exp_vars, par_vars, ld_vars, bld_vars, more_vars >>

\* A dict object newly allocated with contents d: the heap and the reference.
Alloc(h, d) == [heap |-> Append(h, d), ref |-> Len(h) + 1]

\* The working map is base_env itself, not a copy.
CopyOfBase_NoCopy(h, base) == [heap |-> h, ref |-> base]

\* dict(base_env) if base_env else {}: a new object with base_env's contents.
CopyOfBase(h, base) == Alloc(h, h[base])

\* Object ref of heap h with contents d.
Store(h, ref, d) == [h EXCEPT ![ref] = d]

NoLocals ==
    /\ key = "" /\ var_name = "" /\ op_mode = "" /\ processed_value = ""
    /\ env_before = EmptyDict /\ applied = <<>>

\* No registry call is in progress.
RegistryIdle ==
    /\ commands = EmptyDict
    /\ command_name = ""
    /\ caller = ""
    /\ stack = <<>>
    /\ resolved_env = <<>>
    /\ res_error = ""
    /\ res_pc = "idle"
    /\ disk = {}
    /\ collected = <<>>

\* No call of expand_env_value on its own is in progress.
ExpandIdle ==
    /\ tmpl_pieces = <<>> /\ tmpl = ""
    /\ lookup_env = EmptyDict /\ lookup_special = EmptyDict
    /\ expanded = "" /\ reexpanded = ""
    /\ exp_pc = "idle"

\* No thread is in load_env_from_files.
ThreadsIdle == runs = <<>>

\* No registry is being loaded.
NoLoad == [ called |-> FALSE ]

LoadIdle ==
    /\ bundles = <<>> /\ bundle_idx = 0
    /\ _commands = EmptyDict /\ _bundle_sources = EmptyDict
    /\ load_pc = "idle"
    /\ last_load = NoLoad

\* No build has run; no process was started.
NoBuild == [ ran |-> FALSE ]
NoProcess == [ started |-> FALSE ]

\* No call of the API was made.
NoRequest == [ fn |-> "" ]
ApiIdle == request = NoRequest

\* No --info is being shown.
CliIdle ==
    /\ attrs = {} /\ listed = <<>> /\ info_idx = 0 /\ info_rc = -1 /\ info_pc = "idle"

\* No legacy wrapper is preparing an environment.
LegacyIdle ==
    /\ leg_environ = << >> /\ leg_os = "" /\ leg_inherit = FALSE /\ leg_files = <<>>
    /\ leg_explicit = << >> /\ leg_result = [ error |-> "" ] /\ leg_pc = "idle"

\* No wrapper is running.
RunIdle ==
    /\ run_config = << >> /\ run_via = "" /\ run_pc = "idle" /\ _process = FALSE
    /\ _interrupted = FALSE /\ sigint_handler = "default"
    /\ _original_sigint_handler = "none" /\ child_state = "none" /\ child_code = 0
    /\ run_result = << >> /\ run_pending = "" /\ post_runs = <<>> /\ run_trail = {}
    /\ run_end = "" /\ run_rc = 0

\* No thread is calling an instance.
SharedIdle ==
    /\ thr_pc = << >> /\ thr_op = << >> /\ thr_built = << >> /\ assert_failed = {}

\* No caller around the core is at work.
MoreIdle == ApiIdle /\ CliIdle /\ LegacyIdle /\ RunIdle /\ SharedIdle

\* No Environment instance exists.
BuildIdle ==
    /\ discovered = <<>> /\ bare_file = [ given |-> FALSE ]
    /\ env_disk = "" /\ platform = ""
    /\ _command = "" /\ _env = 0 /\ _cmd_def = [ none |-> TRUE ]
    /\ calls = 0 /\ discoveries = 0 /\ prepared = 0
    /\ build_returns = <<>> /\ last_build = NoBuild
    /\ spawned = NoProcess /\ api_error = ""

\* A call of prepare_environment or of load_env_from_files is about to
\* start, with files of the catalogue and, for a direct call, a base map
\* of bases.
InitOver(catalogue, bases) ==
    /\ RegistryIdle
    /\ ExpandIdle
    /\ ThreadsIdle
    /\ LoadIdle
    /\ BuildIdle
    /\ MoreIdle
    /\ os_environ \in HostEnvs
    /\ os_name \in {"posix", "nt"}
    /\ env_files \in SeqsUpTo(catalogue, MaxFiles)
    /\ entry_point \in {"prepare_environment", "load_env_from_files"}
    /\ IF entry_point = "prepare_environment"
       THEN /\ inherit_env \in BOOLEAN
            /\ allowlist \in CallerAllowlists
            /\ heap = <<>>
            /\ base_env = 0
            /\ pc = "prepare"
       ELSE /\ inherit_env = FALSE
            /\ allowlist = {}
            /\ \E b \in bases : heap = <<b>>
            /\ base_env = 1
            /\ pc = "load"
    /\ env = EmptyDict
    /\ merged_env = 0 /\ result_env = 0 /\ file_env = 0
    /\ error = ""
    /\ file_idx = 0 /\ entry_idx = 0
    /\ base_at_call = EmptyDict
    /\ NoLocals

Init == InitOver(FileCatalogue, BaseMaps)

InitRefs == InitOver(ReferenceCatalogue, ReferenceBaseMaps)

(* ------------------------------------------------------------------ *)
(* prepare_environment and load_env_from_files                         *)
(* ------------------------------------------------------------------ *)

\* A seed that takes the whole host environment.
ClosedSeed_WholeHost(host, allow) == host

\* A seed that gives every listed name a value, the empty string when the
\* host has none.
ClosedSeed_SeedsAbsent(host, allow) ==
    [ n \in _CORE_ENV_VARS \cup _ENVOY_ENV_VARS \cup allow |->
        IF n \in DOMAIN host THEN host[n] ELSE "" ]

\* The closed-mode seed: the host's values of the core variables, envoy's
\* own and the caller's allowlist.
ClosedSeed(host, allow) ==
    DictRestrict(host, _CORE_ENV_VARS \cup _ENVOY_ENV_VARS \cup allow)

\* prepare_environment up to its call of load_env_from_files, which gets
\* result_env itself as base_env.
SeedEnvironment ==
    /\ pc = "prepare"
    /\ LET seed == IF inherit_env THEN os_environ ELSE ClosedSeed(os_environ, allowlist)
           a    == Alloc(heap, seed)
       IN  /\ heap' = a.heap
           /\ result_env' = a.ref
           /\ base_env' = a.ref
    /\ pc' = "load"
    /\ UNCHANGED not_env_vars
    /\ UNCHANGED << os_environ, os_name, inherit_env, allowlist, env_files, entry_point,
                    env, merged_env, file_env, error, file_idx, entry_idx, key, var_name,
                    op_mode, processed_value, base_at_call, env_before, applied >>

\* load_env_from_files: no files, a copy of base_env is returned; otherwise
\* the working map starts as a copy of it.
LoadBegin ==
    /\ pc = "load"
    /\ base_at_call' = heap[base_env]
    /\ LET a == CopyOfBase(heap, base_env)
       IN  /\ heap' = a.heap
           /\ IF env_files = <<>>
              THEN /\ file_env' = a.ref
                   /\ merged_env' = merged_env
                   /\ pc' = "returned"
              ELSE /\ merged_env' = a.ref
                   /\ file_env' = file_env
                   /\ pc' = "parse"
    /\ UNCHANGED not_env_vars
    /\ UNCHANGED << os_environ, os_name, inherit_env, allowlist, env_files, entry_point,
                    env, base_env, result_env, error, file_idx, entry_idx, key, var_name,
                    op_mode, processed_value, env_before, applied >>

\* The first file, in order, that is missing or is not JSON (0: none).
RECURSIVE FirstUnreadable(_, _)
FirstUnreadable(files, i) ==
    IF i > Len(files) THEN 0
    ELSE IF ~files[i].exists \/ ~files[i].json_ok THEN i
    ELSE FirstUnreadable(files, i + 1)

\* The pre-pass's first loop: every file is read and parsed before any
\* allowlist is seeded or any entry applied.
ParseFiles ==
    /\ pc = "parse"
    /\ LET i == FirstUnreadable(env_files, 1)
       IN  IF i = 0
           THEN pc' = "seed" /\ error' = error
           ELSE /\ pc' = "raised"
                /\ error' = IF ~env_files[i].exists THEN "not_found" ELSE "invalid_json"
    /\ UNCHANGED not_env_vars
    /\ UNCHANGED << os_environ, os_name, inherit_env, allowlist, env_files, entry_point,
                    env, heap, base_env, merged_env, result_env, file_env, file_idx,
                    entry_idx, key, var_name, op_mode, processed_value, base_at_call,
                    env_before, applied >>

\* A pre-pass that copies the host value of every name the host has.
RECURSIVE SeedNames_Overwrites(_, _, _, _)
SeedNames_Overwrites(m, names, i, host) ==
    IF i > Len(names) THEN m
    ELSE LET var == names[i]
         IN  IF var \in DOMAIN host
             THEN SeedNames_Overwrites(DictSet(m, var, host[var]), names, i + 1, host)
             ELSE SeedNames_Overwrites(m, names, i + 1, host)

\* One allowlist, name by name: a host value is copied for a name that is
\* not in the working map and is in the host environment.
RECURSIVE SeedNames(_, _, _, _)
SeedNames(m, names, i, host) ==
    IF i > Len(names) THEN m
    ELSE LET var == names[i]
         IN  IF var \notin DOMAIN m /\ var \in DOMAIN host
             THEN SeedNames(DictSet(m, var, host[var]), names, i + 1, host)
             ELSE SeedNames(m, names, i + 1, host)

\* Only the first file's allowlist is seeded ahead of the main pass.
SeedFiles_FirstOnly(m, files, i, host) ==
    IF Len(files) = 0 THEN m ELSE SeedNames(m, FileAllowlist(files[1]), 1, host)

\* The allowlists of all files, in file order.
RECURSIVE SeedFiles(_, _, _, _)
SeedFiles(m, files, i, host) ==
    IF i > Len(files) THEN m
    ELSE SeedFiles(SeedNames(m, FileAllowlist(files[i]), 1, host), files, i + 1, host)

SeedAllowlist ==
    /\ pc = "seed"
    /\ heap' = Store(heap, merged_env, SeedFiles(heap[merged_env], env_files, 1, os_environ))
    /\ file_idx' = 1
    /\ pc' = "file"
    /\ UNCHANGED not_env_vars
    /\ UNCHANGED << os_environ, os_name, inherit_env, allowlist, env_files, entry_point,
                    env, base_env, merged_env, result_env, file_env, error, entry_idx,
                    key, var_name, op_mode, processed_value, base_at_call, env_before,
                    applied >>

\* Some element is not a [key, value] pair.
HasBadPair(entries) == \E i \in 1..Len(entries) : ~entries[i].pair

\* What building `items` for a file raises ("" when it succeeds).
ItemsError(f) ==
    IF f.top = "list" THEN (IF HasBadPair(f.entries) THEN "bad_pair" ELSE "")
    ELSE IF f.top # "dict" THEN "bad_shape"
    ELSE IF f.has_environment
         THEN IF f.env_kind = "dict" THEN ""
              ELSE IF f.env_kind = "list"
                   THEN (IF HasBadPair(f.entries) THEN "bad_pair" ELSE "")
                   ELSE "bad_environment"
         ELSE ""

\* The main pass reaches file file_idx: its items are built, or the shape
\* of the file is refused.
BeginFile ==
    /\ pc = "file"
    /\ file_idx <= Len(env_files)
    /\ LET e == ItemsError(env_files[file_idx])
       IN  IF e = ""
           THEN pc' = "entry" /\ entry_idx' = 1 /\ error' = error
           ELSE pc' = "raised" /\ entry_idx' = entry_idx /\ error' = e
    /\ UNCHANGED not_env_vars
    /\ UNCHANGED << os_environ, os_name, inherit_env, allowlist, env_files, entry_point,
                    env, heap, base_env, merged_env, result_env, file_env, file_idx,
                    key, var_name, op_mode, processed_value, base_at_call, env_before,
                    applied >>

\* The operator prefix of a key and the variable name after it.
ParseKey(k) ==
    IF StartsWith(k, "?=") THEN [mode |-> "default", name |-> DropPrefix(k, 2)]
    ELSE IF StartsWith(k, "+=") THEN [mode |-> "append", name |-> DropPrefix(k, 2)]
    ELSE IF StartsWith(k, "^=") THEN [mode |-> "prepend", name |-> DropPrefix(k, 2)]
    ELSE [mode |-> "assign", name |-> k]

\* A bare key that keeps a value already present.
ApplyOperator_AssignKeeps(m, mode, name, pv, sep) ==
    IF mode = "assign" /\ name \in DOMAIN m THEN m
    ELSE IF mode = "append" /\ name \in DOMAIN m /\ m[name] # ""
    THEN DictSet(m, name, m[name] \o sep \o pv)
    ELSE IF mode = "prepend" /\ name \in DOMAIN m /\ m[name] # ""
    THEN DictSet(m, name, pv \o sep \o m[name])
    ELSE IF mode = "default" /\ name \in DOMAIN m THEN m
    ELSE DictSet(m, name, pv)

\* += and ^= that join with the separator whatever the current value is.
ApplyOperator_NoEmptyCheck(m, mode, name, pv, sep) ==
    LET current_value == IF name \in DOMAIN m THEN m[name] ELSE ""
    IN  IF mode = "default"
        THEN (IF name \notin DOMAIN m THEN DictSet(m, name, pv) ELSE m)
        ELSE IF mode = "append" THEN DictSet(m, name, current_value \o sep \o pv)
        ELSE IF mode = "prepend" THEN DictSet(m, name, pv \o sep \o current_value)
        ELSE DictSet(m, name, pv)

\* ?= that takes an empty value for an absent one.
ApplyOperator_DefaultOnEmpty(m, mode, name, pv, sep) ==
    LET current_value == IF name \in DOMAIN m THEN m[name] ELSE ""
    IN  IF mode = "default"
        THEN (IF current_value = "" THEN DictSet(m, name, pv) ELSE m)
        ELSE IF mode = "append"
        THEN (IF current_value # ""
              THEN DictSet(m, name, current_value \o sep \o pv)
              ELSE DictSet(m, name, pv))
        ELSE IF mode = "prepend"
        THEN (IF current_value # ""
              THEN DictSet(m, name, pv \o sep \o current_value)
              ELSE DictSet(m, name, pv))
        ELSE DictSet(m, name, pv)

\* += and ^= that take the host's value for a variable the working map lacks.
ApplyOperator_HostCurrent(m, mode, name, pv, sep) ==
    LET current_value == IF name \in DOMAIN m THEN m[name]
                         ELSE IF name \in DOMAIN os_environ THEN os_environ[name]
                         ELSE ""
    IN  IF mode = "default"
        THEN (IF name \notin DOMAIN m THEN DictSet(m, name, pv) ELSE m)
        ELSE IF mode = "append"
        THEN (IF current_value # ""
              THEN DictSet(m, name, current_value \o sep \o pv)
              ELSE DictSet(m, name, pv))
        ELSE IF mode = "prepend"
        THEN (IF current_value # ""
              THEN DictSet(m, name, pv \o sep \o current_value)
              ELSE DictSet(m, name, pv))
        ELSE DictSet(m, name, pv)

\* ?= that joins its value to a value already present.
ApplyOperator_DefaultJoins(m, mode, name, pv, sep) ==
    LET current_value == IF name \in DOMAIN m THEN m[name] ELSE ""
    IN  IF mode \in { "default", "append" }
        THEN (IF current_value # ""
              THEN DictSet(m, name, current_value \o sep \o pv)
              ELSE DictSet(m, name, pv))
        ELSE IF mode = "prepend"
        THEN (IF current_value # ""
              THEN DictSet(m, name, pv \o sep \o current_value)
              ELSE DictSet(m, name, pv))
        ELSE DictSet(m, name, pv)

\* The working map after one entry: mode applied to name with the processed
\* value pv; sep is load_env_from_files' own path_sep.
ApplyOperator(m, mode, name, pv, sep) ==
    LET current_value == IF name \in DOMAIN m THEN m[name] ELSE ""
    IN  IF mode = "default"
        THEN (IF name \notin DOMAIN m THEN DictSet(m, name, pv) ELSE m)
        ELSE IF mode = "append"
        THEN (IF current_value # ""
              THEN DictSet(m, name, current_value \o sep \o pv)
              ELSE DictSet(m, name, pv))
        ELSE IF mode = "prepend"
        THEN (IF current_value # ""
              THEN DictSet(m, name, pv \o sep \o current_value)
              ELSE DictSet(m, name, pv))
        ELSE DictSet(m, name, pv)

\* A separator fixed to the Unix one.
LoadPathSep_AlwaysColon(name_of_os) == ":"

\* The separator load_env_from_files computes for += and ^=.
LoadPathSep(name_of_os) == IF name_of_os = "nt" THEN ";" ELSE ":"

\* The entry loop over the items of file f from item i on, as a function of
\* the working map it starts from.
RECURSIVE ApplyEntries(_, _, _, _)
ApplyEntries(m, f, i, name_of_os) ==
    IF i > Len(f.entries) THEN m
    ELSE LET it == f.entries[i]
             pk == ParseKey(it.key)
             pv == process_env_value(it.value, m, get_special_variables(f.path), name_of_os)
         IN  ApplyEntries(ApplyOperator(m, pk.mode, pk.name, pv, LoadPathSep(name_of_os)),
                          f, i + 1, name_of_os)

\* The main pass over the files from file i on.
RECURSIVE ApplyFiles(_, _, _, _)
ApplyFiles(m, files, i, name_of_os) ==
    IF i > Len(files) THEN m
    ELSE ApplyFiles(ApplyEntries(m, files[i], 1, name_of_os), files, i + 1, name_of_os)

\* What load_env_from_files returns for files it accepts: the copy of the
\* base map, seeded from the host by the allowlists, then the main pass.
ComposeLoad(files, base, host, name_of_os) ==
    IF files = <<>> THEN base
    ELSE ApplyFiles(SeedFiles(base, files, 1, host), files, 1, name_of_os)

\* What prepare_environment returns when load_env_from_files accepts the files.
ComposePrepare(files, host, inherit, allow, explicit, name_of_os) ==
    LET seed == IF inherit THEN host ELSE ClosedSeed(host, allow)
    IN  DictUpdate(DictUpdate(seed, ComposeLoad(files, seed, host, name_of_os)), explicit)

\* An entry loop that takes the items of a file from the last to the first.
ApplyEntry_Reversed ==
    /\ pc = "entry"
    /\ entry_idx <= Len(env_files[file_idx].entries)
    /\ LET f  == env_files[file_idx]
           at == Len(f.entries) + 1 - entry_idx
           it == f.entries[at]
           pk == ParseKey(it.key)
           m  == heap[merged_env]
           pv == process_env_value(it.value, m, get_special_variables(f.path), os_name)
       IN  /\ key' = it.key
           /\ var_name' = pk.name
           /\ op_mode' = pk.mode
           /\ processed_value' = pv
           /\ env_before' = m
           /\ heap' = Store(heap, merged_env,
                            ApplyOperator(m, pk.mode, pk.name, pv, LoadPathSep(os_name)))
           /\ applied' = Append(applied, [file |-> file_idx, idx |-> at, key |-> it.key,
                                           mode |-> pk.mode,
                                           name |-> pk.name, value |-> pv,
                                           current |-> IF pk.name \in DOMAIN m
                                                       THEN m[pk.name] ELSE ""])
    /\ entry_idx' = entry_idx + 1
    /\ UNCHANGED not_env_vars
    /\ UNCHANGED << os_environ, os_name, inherit_env, allowlist, env_files, entry_point,
                    env, base_env, merged_env, result_env, file_env, pc, error, file_idx,
                    base_at_call >>

\* An entry loop that keeps the special variables of the first file for
\* the files after it.
ApplyEntry_FirstFileSpecials ==
    /\ pc = "entry"
    /\ entry_idx <= Len(env_files[file_idx].entries)
    /\ LET f  == env_files[file_idx]
           it == f.entries[entry_idx]
           pk == ParseKey(it.key)
           m  == heap[merged_env]
           pv == process_env_value(it.value, m, get_special_variables(env_files[1].path),
                                   os_name)
       IN  /\ key' = it.key
           /\ var_name' = pk.name
           /\ op_mode' = pk.mode
           /\ processed_value' = pv
           /\ env_before' = m
           /\ heap' = Store(heap, merged_env,
                            ApplyOperator(m, pk.mode, pk.name, pv, LoadPathSep(os_name)))
           /\ applied' = Append(applied, [file |-> file_idx, idx |-> entry_idx, key |-> it.key,
                                           mode |-> pk.mode,
                                           name |-> pk.name, value |-> pv,
                                           current |-> IF pk.name \in DOMAIN m
                                                       THEN m[pk.name] ELSE ""])
    /\ entry_idx' = entry_idx + 1
    /\ UNCHANGED not_env_vars
    /\ UNCHANGED << os_environ, os_name, inherit_env, allowlist, env_files, entry_point,
                    env, base_env, merged_env, result_env, file_env, pc, error, file_idx,
                    base_at_call >>

\* One iteration of the entry loop.
ApplyEntry ==
    /\ pc = "entry"
    /\ entry_idx <= Len(env_files[file_idx].entries)
    /\ LET f  == env_files[file_idx]
           it == f.entries[entry_idx]
           pk == ParseKey(it.key)
           m  == heap[merged_env]
           pv == process_env_value(it.value, m, get_special_variables(f.path), os_name)
       IN  /\ key' = it.key
           /\ var_name' = pk.name
           /\ op_mode' = pk.mode
           /\ processed_value' = pv
           /\ env_before' = m
           /\ heap' = Store(heap, merged_env,
                            ApplyOperator(m, pk.mode, pk.name, pv, LoadPathSep(os_name)))
           /\ applied' = Append(applied, [file |-> file_idx, idx |-> entry_idx, key |-> it.key,
                                           mode |-> pk.mode,
                                           name |-> pk.name, value |-> pv,
                                           current |-> IF pk.name \in DOMAIN m
                                                       THEN m[pk.name] ELSE ""])
    /\ entry_idx' = entry_idx + 1
    /\ UNCHANGED not_env_vars
    /\ UNCHANGED << os_environ, os_name, inherit_env, allowlist, env_files, entry_point,
                    env, base_env, merged_env, result_env, file_env, pc, error, file_idx,
                    base_at_call >>

\* The items of a file are exhausted: on to the next file.
EndFile ==
    /\ pc = "entry"
    /\ entry_idx > Len(env_files[file_idx].entries)
    /\ file_idx' = file_idx + 1
    /\ pc' = "file"
    /\ UNCHANGED not_env_vars
    /\ UNCHANGED << os_environ, os_name, inherit_env, allowlist, env_files, entry_point,
                    env, heap, base_env, merged_env, result_env, file_env, error,
                    entry_idx, key, var_name, op_mode, processed_value, base_at_call,
                    env_before, applied >>

\* return merged_env
LoadReturn ==
    /\ pc = "file"
    /\ file_idx > Len(env_files)
    /\ file_env' = merged_env
    /\ pc' = "returned"
    /\ UNCHANGED not_env_vars
    /\ UNCHANGED << os_environ, os_name, inherit_env, allowlist, env_files, entry_point,
                    env, heap, base_env, merged_env, result_env, error, file_idx,
                    entry_idx, key, var_name, op_mode, processed_value, base_at_call,
                    env_before, applied >>

\* prepare_environment after the call: result_env.update(file_env), then the
\* explicit env dict on top. The env argument is drawn where it is read.
MergeResult ==
    /\ pc = "returned"
    /\ entry_point = "prepare_environment"
    /\ \E e \in ExplicitEnvs :
          /\ env' = e
          /\ heap' = Store(heap, result_env,
                           DictUpdate(DictUpdate(heap[result_env], heap[file_env]), e))
    /\ pc' = "done"
    /\ UNCHANGED not_env_vars
    /\ UNCHANGED << os_environ, os_name, inherit_env, allowlist, env_files, entry_point,
                    base_env, merged_env, result_env, file_env, error, file_idx,
                    entry_idx, key, var_name, op_mode, processed_value, base_at_call,
                    env_before, applied >>

Next ==
    \/ SeedEnvironment
    \/ LoadBegin
    \/ ParseFiles
    \/ SeedAllowlist
    \/ BeginFile
    \/ ApplyEntry
    \/ EndFile
    \/ LoadReturn
    \/ MergeResult

Spec == Init /\ [][Next]_vars

\* The same calls on the files that try references and keys.
SpecRefs == InitRefs /\ [][Next]_vars

(* ------------------------------------------------------------------ *)
(* CommandRegistry.resolve_environment and _collect_env_files          *)
(* ------------------------------------------------------------------ *)

\* The position of the last slash of s at or before i, 0 if there is none.
RECURSIVE LastSlash(_, _)
LastSlash(s, i) ==
    IF i < 1 THEN 0
    ELSE IF SubSeq(s, i, i) = "/" THEN i
    ELSE LastSlash(s, i - 1)

\* Path(s) drops trailing slashes and "." components: s without them.
RECURSIVE PathTrimmed(_)
PathTrimmed(s) ==
    IF s = "." THEN ""
    ELSE IF Len(s) > 1 /\ EndsWith(s, "/") THEN PathTrimmed(SubSeq(s, 1, Len(s) - 1))
    ELSE IF Len(s) > 1 /\ EndsWith(s, "/.") THEN PathTrimmed(SubSeq(s, 1, Len(s) - 1))
    ELSE s

\* Path(s).name: the last component, what follows the last slash.
Basename(s) ==
    LET t == PathTrimmed(s)
    IN  IF t = "/" THEN "" ELSE SubSeq(t, LastSlash(t, Len(t)) + 1, Len(t))

\* An entry names a command when it is registered, whatever its form.
IsReference_RegisteredWins(entry) ==
    entry \in DOMAIN commands \/ ~HasChar(Basename(entry), ".")

\* An environment entry with no dot in its basename names a command.
IsReference(entry) == ~HasChar(Basename(entry), ".")

\* The names an environment list may hold: commands and files.
CommandNames == { "a", "b", "c" }
FileNames == { "x.json", "y.json" }
EnvironmentEntries == CommandNames \cup FileNames

\* load_from_file gives every command the directory of its commands.json.
EnvDirs == [ a |-> <<"b1", "envoy_env">>, b |-> <<"b2", "envoy_env">>, c |-> <<"b3", "envoy_env">> ]

CommandDefinition(name, environment) ==
    [ name |-> name, environment |-> environment, envoy_env_dir |-> EnvDirs[name] ]

\* The definitions command c may have: a library command of a few shapes.
LibraryEnvironments == { <<>>, <<"x.json">>, <<"a">>, <<"y.json", "b">> }

\* The registries: a and b with any environment list, c from the library,
\* each of them registered or not.
Registries ==
    { [ n \in R |-> CommandDefinition(n, IF n = "c" THEN lib ELSE ev[n]) ] :
        R \in SUBSET CommandNames,
        ev \in [ {"a", "b"} -> SeqsUpTo(EnvironmentEntries, MaxEnvLen) ],
        lib \in LibraryEnvironments }

\* Deepest nesting of resolve_environment calls the interpreter allows.
RecursionLimit == 5

\* registry.get(name)
Registered(name) == name \in DOMAIN commands

\* A call of resolve_environment about to run its checks.
NewFrame(name, seen) ==
    [ command_name |-> name, seen |-> seen, i |-> 0, result |-> <<>> ]

Top == stack[Len(stack)]

\* A head without the cycle check.
EnterCheck_NoCycleCheck(name, seen) == IF ~Registered(name) THEN "unknown" ELSE ""

\* A head that reports a name it cannot find as a cycle.
EnterCheck_UnknownAsCircular(name, seen) ==
    IF name \in seen \/ ~Registered(name) THEN "circular" ELSE ""

\* How a call starts: "circular" or "unknown" when it raises, "" when it
\* goes on to walk the command's environment list.
EnterCheck(name, seen) ==
    IF name \in seen THEN "circular"
    ELSE IF ~Registered(name) THEN "unknown"
    ELSE ""

\* The nested call's list put in front of the caller's.
Extend_InFront(result, returned) == returned \o result

\* The caller's result once a nested call has returned: result.extend(...).
Extend(result, returned) == result \o returned

\* One visited set shared by all calls: what a nested call added stays.
SeenOnReturn_Shared(own, nested) == own \cup nested

\* The caller's _seen after a nested call: _seen | {command_name} builds a
\* new frozenset for the nested call, the caller's own is not touched.
SeenOnReturn(own, nested) == own

\* A file paired with the directory of the command asked for.
FilePair_RequestedDir(entry, cmd) == << entry, commands[command_name].envoy_env_dir >>

\* The entry of a file: result.append((entry, cmd.envoy_env_dir)).
FilePair(entry, cmd) == << entry, cmd.envoy_env_dir >>

\* A direct call of registry.resolve_environment(command_name).
CallResolve ==
    /\ res_pc = "start"
    /\ caller' = "resolve_environment"
    /\ stack' = << NewFrame(command_name, {}) >>
    /\ res_pc' = "resolving"
    /\ UNCHANGED not_reg_vars
    /\ UNCHANGED << commands, command_name, resolved_env, res_error, disk, collected >>

\* _collect_env_files up to its call of resolve_environment.
CallCollect ==
    /\ res_pc = "start"
    /\ caller' = "_collect_env_files"
    /\ IF Registered(command_name)
       THEN /\ stack' = << NewFrame(command_name, {}) >>
            /\ res_pc' = "resolving"
            /\ res_error' = res_error
       ELSE /\ stack' = stack
            /\ res_pc' = "raised"
            /\ res_error' = "CommandNotFoundError"
    /\ UNCHANGED not_reg_vars
    /\ UNCHANGED << commands, command_name, resolved_env, disk, collected >>

\* The head of resolve_environment: the cycle check, the lookup, and
\* _seen | {command_name}. An exception unwinds every active call.
ResolveEnter ==
    /\ res_pc = "resolving"
    /\ Top.i = 0
    /\ LET e == EnterCheck(Top.command_name, Top.seen)
       IN  IF e # ""
           THEN /\ res_error' = e
                /\ res_pc' = "raised"
                /\ stack' = <<>>
           ELSE /\ stack' = [stack EXCEPT ![Len(stack)] =
                                [@ EXCEPT !.seen = @ \cup {Top.command_name}, !.i = 1]]
                /\ UNCHANGED << res_error, res_pc >>
    /\ UNCHANGED not_reg_vars
    /\ UNCHANGED << commands, command_name, caller, resolved_env, disk, collected >>

\* One entry of the loop: a file is appended, a reference is resolved by a
\* nested call (which the interpreter refuses beyond its recursion limit).
ResolveEntry ==
    /\ res_pc = "resolving"
    /\ Top.i >= 1
    /\ Top.i <= Len(commands[Top.command_name].environment)
    /\ LET cmd   == commands[Top.command_name]
           entry == cmd.environment[Top.i]
       IN  IF IsReference(entry)
           THEN IF Len(stack) >= RecursionLimit
                THEN /\ res_error' = "RecursionError"
                     /\ res_pc' = "raised"
                     /\ stack' = <<>>
                ELSE /\ stack' = Append(stack, NewFrame(entry, Top.seen))
                     /\ UNCHANGED << res_error, res_pc >>
           ELSE /\ stack' = [stack EXCEPT ![Len(stack)] =
                                [@ EXCEPT !.result = Append(@, FilePair(entry, cmd)),
                                          !.i = @ + 1]]
                /\ UNCHANGED << res_error, res_pc >>
    /\ UNCHANGED not_reg_vars
    /\ UNCHANGED << commands, command_name, caller, resolved_env, disk, collected >>

\* return result: to the calling resolve_environment, which extends its own
\* list and moves on, or to the outside.
ResolveReturn ==
    /\ res_pc = "resolving"
    /\ Top.i >= 1
    /\ Top.i > Len(commands[Top.command_name].environment)
    /\ IF Len(stack) = 1
       THEN /\ resolved_env' = Top.result
            /\ stack' = <<>>
            /\ res_pc' = "resolved"
       ELSE /\ stack' = [ SubSeq(stack, 1, Len(stack) - 1) EXCEPT ![Len(stack) - 1] =
                            [@ EXCEPT !.result = Extend(@, Top.result),
                                      !.seen = SeenOnReturn(@, Top.seen),
                                      !.i = @ + 1] ]
            /\ UNCHANGED << resolved_env, res_pc >>
    /\ UNCHANGED not_reg_vars
    /\ UNCHANGED << commands, command_name, caller, res_error, disk, collected >>

\* _collect_env_files wraps the resolver's WrapperError.
CollectWrapError ==
    /\ res_pc = "raised"
    /\ caller = "_collect_env_files"
    /\ res_error \in {"circular", "unknown"}
    /\ res_error' = "EnvironmentBuildError"
    /\ UNCHANGED not_reg_vars
    /\ UNCHANGED << commands, command_name, caller, stack, resolved_env, res_pc, disk,
                    collected >>

\* dir / name
JoinPath(dir, name) == Append(dir, name)

\* Paths that leave out the files that are not on disk.
RECURSIVE LegacyPaths_SkipsMissing(_, _, _, _)
LegacyPaths_SkipsMissing(pairs, i, env_dir, on_disk) ==
    IF i > Len(pairs) THEN [ok |-> TRUE, files |-> <<>>]
    ELSE LET file_path == JoinPath(pairs[i][2], pairs[i][1])
             rest      == LegacyPaths_SkipsMissing(pairs, i + 1, env_dir, on_disk)
         IN  [ok |-> TRUE,
              files |-> (IF file_path \in on_disk THEN << file_path >> ELSE <<>>) \o rest.files]

\* The paths of the resolved pairs, each under its own directory (the
\* command's when a pair carries none), up to the first that is not on disk.
RECURSIVE LegacyPaths(_, _, _, _)
LegacyPaths(pairs, i, env_dir, on_disk) ==
    IF i > Len(pairs) THEN [ok |-> TRUE, files |-> <<>>]
    ELSE LET entry_env_dir == pairs[i][2]
             dir_to_use == IF entry_env_dir # <<>> THEN entry_env_dir ELSE env_dir
             file_path  == JoinPath(dir_to_use, pairs[i][1])
         IN  IF file_path \notin on_disk
             THEN [ok |-> FALSE, files |-> <<>>]
             ELSE LET rest == LegacyPaths(pairs, i + 1, env_dir, on_disk)
                  IN  [ok |-> rest.ok, files |-> << file_path >> \o rest.files]

\* What the file system may hold when the collector looks.
AllEnvFiles ==
    { JoinPath(EnvDirs[n], f) : n \in CommandNames, f \in FileNames \cup {"global_env.json"} }

Disks ==
    { AllEnvFiles,
      AllEnvFiles \ { JoinPath(EnvDirs[n], "global_env.json") : n \in CommandNames },
      AllEnvFiles \ { JoinPath(EnvDirs["b"], "y.json") } }

\* _collect_env_files after resolution, single commands.json mode
\* (bundles is None or empty): global_env.json of the command's directory
\* first, then the resolved files.
CollectLegacy ==
    /\ res_pc = "resolved"
    /\ caller = "_collect_env_files"
    /\ \E d \in Disks :
          /\ disk' = d
          /\ LET env_dir    == commands[command_name].envoy_env_dir
                 global_env == JoinPath(env_dir, "global_env.json")
                 head       == IF global_env \in d THEN << global_env >> ELSE <<>>
                 paths      == LegacyPaths(resolved_env, 1, env_dir, d)
             IN  IF paths.ok
                 THEN /\ collected' = head \o paths.files
                      /\ res_pc' = "collected"
                      /\ res_error' = res_error
                 ELSE /\ collected' = collected
                      /\ res_pc' = "raised"
                      /\ res_error' = "EnvironmentBuildError"
    /\ UNCHANGED not_reg_vars
    /\ UNCHANGED << commands, command_name, caller, stack, resolved_env >>

\* No EnvironmentManager call is in progress.
EnvironmentIdle ==
    /\ os_environ = EmptyDict /\ os_name = "posix" /\ inherit_env = FALSE
    /\ allowlist = {} /\ env_files = <<>> /\ entry_point = "" /\ env = EmptyDict
    /\ heap = <<>> /\ base_env = 0 /\ merged_env = 0 /\ result_env = 0 /\ file_env = 0
    /\ pc = "idle" /\ error = "" /\ file_idx = 0 /\ entry_idx = 0
    /\ base_at_call = EmptyDict
    /\ NoLocals

InitResolve ==
    /\ EnvironmentIdle
    /\ ExpandIdle
    /\ ThreadsIdle
    /\ LoadIdle
    /\ BuildIdle
    /\ MoreIdle
    /\ commands \in Registries
    /\ command_name = "a"
    /\ caller = ""
    /\ stack = <<>>
    /\ resolved_env = <<>>
    /\ res_error = ""
    /\ res_pc = "start"
    /\ disk = {}
    /\ collected = <<>>

NextResolve ==
    \/ CallResolve
    \/ CallCollect
    \/ ResolveEnter
    \/ ResolveEntry
    \/ ResolveReturn
    \/ CollectWrapError
    \/ CollectLegacy

\* Resolution runs to its end: nothing suspends a call in progress.
SpecResolve == InitResolve /\ [][NextResolve]_vars /\ WF_vars(NextResolve)

\* Registries with a command whose name has a dot, and one whose name has
\* a directory part: a lists any entries, "x.json" and "d.v/a" are
\* registered or not.
DottedEntries == { "a", "x.json", "d.v/a", "d/y.json" }

DottedRegistries ==
    { [ n \in R |->
          [ name |-> n,
            environment |-> IF n = "a" THEN ev ELSE IF n = "x.json" THEN << "y.json" >> ELSE tail,
            envoy_env_dir |-> IF n = "a" THEN EnvDirs["a"] ELSE EnvDirs["b"] ] ] :
        R \in { {"a"} \cup S : S \in SUBSET {"x.json", "d.v/a"} },
        ev \in SeqsUpTo(DottedEntries, MaxEnvLen),
        tail \in { << "x.json" >>, << "a" >> } }

InitDots ==
    /\ EnvironmentIdle
    /\ ExpandIdle
    /\ ThreadsIdle
    /\ LoadIdle
    /\ BuildIdle
    /\ MoreIdle
    /\ commands \in DottedRegistries
    /\ command_name = "a"
    /\ caller = ""
    /\ stack = <<>>
    /\ resolved_env = <<>>
    /\ res_error = ""
    /\ res_pc = "start"
    /\ disk = {}
    /\ collected = <<>>

\* The same calls on those registries.
SpecDots == InitDots /\ [][NextResolve]_vars

(* ------------------------------------------------------------------ *)
(* expand_env_value called on its own                                  *)
(* ------------------------------------------------------------------ *)

\* What value strings are put together from: a reference of each form,
\* and text that holds the characters of the reference syntax.
TemplatePieces == { "${A}", "{$B}", "$", "{", "A}", "x" }

\* The values a looked-up name may have: some hold reference syntax.
LookupValues == { "", "x", "${B}", "$" }

\* current_env: A and B, each absent or with one of the values.
LookupEnvs ==
    UNION { [ D -> LookupValues ] : D \in SUBSET {"A", "B"} }

\* special_vars: None or empty, or one that names A.
LookupSpecials == { EmptyDict, [A |-> "s"] }

InitExpand ==
    /\ EnvironmentIdle
    /\ RegistryIdle
    /\ ThreadsIdle
    /\ LoadIdle
    /\ BuildIdle
    /\ MoreIdle
    /\ tmpl_pieces \in SeqsUpTo(TemplatePieces, MaxPieces)
    /\ tmpl = Join(tmpl_pieces, "")
    /\ lookup_env \in LookupEnvs
    /\ lookup_special \in LookupSpecials
    /\ expanded = "" /\ reexpanded = ""
    /\ exp_pc = "start"

\* expand_env_value(value, current_env, special_vars)
ExpandOnce ==
    /\ exp_pc = "start"
    /\ expanded' = expand_env_value(tmpl, lookup_env, lookup_special)
    /\ exp_pc' = "expanded"
    /\ UNCHANGED not_exp_vars
    /\ UNCHANGED << tmpl_pieces, tmpl, lookup_env, lookup_special, reexpanded >>

\* The result handed to expand_env_value again, with the same lookup.
ExpandAgain ==
    /\ exp_pc = "expanded"
    /\ reexpanded' = expand_env_value(expanded, lookup_env, lookup_special)
    /\ exp_pc' = "again"
    /\ UNCHANGED not_exp_vars
    /\ UNCHANGED << tmpl_pieces, tmpl, lookup_env, lookup_special, expanded >>

NextExpand ==
    \/ ExpandOnce
    \/ ExpandAgain

SpecExpand == InitExpand /\ [][NextExpand]_vars

(* ------------------------------------------------------------------ *)
(* load_env_from_files called by two threads on the same arguments      *)
(* ------------------------------------------------------------------ *)

Threads == { "t1", "t2" }

\* The files the threads load: an append, assignments with a prepend that
\* refers to the variable it extends, and a default with an allowlist.
ConcurrentFiles ==
    { f \in FileCatalogue :
        f.path[Len(f.path)] \in { "append.json", "pairs.json", "allow.json" } }

\* A call that has not started. overlapped: some step of the call was
\* taken while another thread was inside its own call.
NewRun ==
    [ pc |-> "load", merged_env |-> 0, file_env |-> 0, error |-> "",
      file_idx |-> 0, entry_idx |-> 0, overlapped |-> FALSE ]

\* The positions inside the call, after its first and before its last step.
InProgress == { "parse", "seed", "file", "entry" }

\* Thread t's record after a step that changes it to r.
Stepped(t, r) ==
    [ runs EXCEPT ![t] =
        [ r EXCEPT !.overlapped =
            @ \/ \E u \in Threads \ {t} : runs[u].pc \in InProgress ] ]

\* Both threads are about to call load_env_from_files(env_files, base_env)
\* with the same list and the same base_env object, under one host.
InitPair ==
    /\ RegistryIdle
    /\ ExpandIdle
    /\ LoadIdle
    /\ BuildIdle
    /\ MoreIdle
    /\ os_environ \in HostEnvs
    /\ os_name \in {"posix", "nt"}
    /\ inherit_env = FALSE /\ allowlist = {}
    /\ env_files \in SeqsUpTo(ConcurrentFiles, MaxFiles)
    /\ entry_point = "load_env_from_files"
    /\ env = EmptyDict
    /\ \E b \in BaseMaps : heap = <<b>> /\ base_at_call = b
    /\ base_env = 1
    /\ merged_env = 0 /\ result_env = 0 /\ file_env = 0
    /\ pc = "idle" /\ error = ""
    /\ file_idx = 0 /\ entry_idx = 0
    /\ NoLocals
    /\ runs = [ t \in Threads |-> NewRun ]

\* The steps of load_env_from_files, taken by thread t on its own locals.
RunLoadBegin(t) ==
    /\ runs[t].pc = "load"
    /\ LET a == CopyOfBase(heap, base_env)
       IN  /\ heap' = a.heap
           /\ runs' = Stepped(t, IF env_files = <<>>
                                  THEN [runs[t] EXCEPT !.file_env = a.ref, !.pc = "returned"]
                                  ELSE [runs[t] EXCEPT !.merged_env = a.ref, !.pc = "parse"])
    /\ UNCHANGED << env_but_heap, not_env_par_vars >>

RunParseFiles(t) ==
    /\ runs[t].pc = "parse"
    /\ LET i == FirstUnreadable(env_files, 1)
       IN  runs' = Stepped(t, IF i = 0
                              THEN [runs[t] EXCEPT !.pc = "seed"]
                              ELSE [runs[t] EXCEPT !.pc = "raised",
                                        !.error = IF ~env_files[i].exists
                                                  THEN "not_found" ELSE "invalid_json"])
    /\ UNCHANGED << env_vars, not_env_par_vars >>

RunSeedAllowlist(t) ==
    /\ runs[t].pc = "seed"
    /\ heap' = Store(heap, runs[t].merged_env,
                     SeedFiles(heap[runs[t].merged_env], env_files, 1, os_environ))
    /\ runs' = Stepped(t, [runs[t] EXCEPT !.file_idx = 1, !.pc = "file"])
    /\ UNCHANGED << env_but_heap, not_env_par_vars >>

RunBeginFile(t) ==
    /\ runs[t].pc = "file"
    /\ runs[t].file_idx <= Len(env_files)
    /\ LET e == ItemsError(env_files[runs[t].file_idx])
       IN  runs' = Stepped(t, IF e = ""
                              THEN [runs[t] EXCEPT !.pc = "entry", !.entry_idx = 1]
                              ELSE [runs[t] EXCEPT !.pc = "raised", !.error = e])
    /\ UNCHANGED << env_vars, not_env_par_vars >>

RunApplyEntry(t) ==
    /\ runs[t].pc = "entry"
    /\ runs[t].entry_idx <= Len(env_files[runs[t].file_idx].entries)
    /\ LET f  == env_files[runs[t].file_idx]
           it == f.entries[runs[t].entry_idx]
           pk == ParseKey(it.key)
           m  == heap[runs[t].merged_env]
           pv == process_env_value(it.value, m, get_special_variables(f.path), os_name)
       IN  heap' = Store(heap, runs[t].merged_env,
                         ApplyOperator(m, pk.mode, pk.name, pv, LoadPathSep(os_name)))
    /\ runs' = Stepped(t, [runs[t] EXCEPT !.entry_idx = @ + 1])
    /\ UNCHANGED << env_but_heap, not_env_par_vars >>

RunEndFile(t) ==
    /\ runs[t].pc = "entry"
    /\ runs[t].entry_idx > Len(env_files[runs[t].file_idx].entries)
    /\ runs' = Stepped(t, [runs[t] EXCEPT !.file_idx = @ + 1, !.pc = "file"])
    /\ UNCHANGED << env_vars, not_env_par_vars >>

RunLoadReturn(t) ==
    /\ runs[t].pc = "file"
    /\ runs[t].file_idx > Len(env_files)
    /\ runs' = Stepped(t, [runs[t] EXCEPT !.file_env = runs[t].merged_env, !.pc = "returned"])
    /\ UNCHANGED << env_vars, not_env_par_vars >>

\* The threads take their steps in any order.
NextPair ==
    \/ \E t \in Threads : RunLoadBegin(t)
    \/ \E t \in Threads : RunParseFiles(t)
    \/ \E t \in Threads : RunSeedAllowlist(t)
    \/ \E t \in Threads : RunBeginFile(t)
    \/ \E t \in Threads : RunApplyEntry(t)
    \/ \E t \in Threads : RunEndFile(t)
    \/ \E t \in Threads : RunLoadReturn(t)

SpecPair == InitPair /\ [][NextPair]_vars

(* ------------------------------------------------------------------ *)
(* CommandRegistry.load_from_file and load_from_bundles                *)
(* ------------------------------------------------------------------ *)

\* JSON null, and a key that the object does not have.
NullV == [t |-> "null", s |-> "", l |-> <<>>]
AbsentV == [t |-> "absent", s |-> "", l |-> <<>>]

\* The value of one key of commands.json. is_dict: the value is an object;
\* has_environment, environment: its "environment" key; alias: its "alias"
\* key (AbsentV when it has none).
CommandConfig(has_environment, environment, alias) ==
    [ is_dict |-> TRUE, has_environment |-> has_environment,
      environment |-> environment, alias |-> alias ]

ScalarConfig ==
    [ is_dict |-> FALSE, has_environment |-> FALSE, environment |-> NullV, alias |-> AbsentV ]

CommandEntry(name, config) == [ name |-> name, config |-> config ]

\* A commands.json in directory dir: whether it exists, parses as JSON,
\* the type of the document, and the items of a top-level object.
CommandsFile(dir, exists, json_ok, top, entries) ==
    [ dir |-> dir, exists |-> exists, json_ok |-> json_ok, top |-> top, entries |-> entries ]

\* The envoy_env directory of the bundle <roots>/namespace/name.
EnvoyEnvOf(namespace, name) == << "r", namespace, name, "envoy_env" >>

\* BundleInfo: root/envoy_env, the names of the *.json files in it (the
\* index env_files maps each to its path in envoy_env) and commands.json.
BundleInfo(namespace, name, file_names, commands_json) ==
    [ namespace |-> namespace, name |-> name,
      envoy_env |-> EnvoyEnvOf(namespace, name),
      env_files |-> file_names,
      commands_json |-> commands_json ]

\* BundleInfo.bndlid
bndlid(b) == b.namespace \o ":" \o b.name

\* CommandDefinition(name, environment, alias, bundle, envoy_env_dir); alias
\* is None (NullV) or a list, bundle None is the empty string (a bundle id
\* is never empty, and the code asks only whether bundle_name is falsy).
NewCommandDefinition(name, environment, alias, bundle, envoy_env_dir) ==
    [ name |-> name, environment |-> environment, alias |-> alias,
      bundle |-> bundle, envoy_env_dir |-> envoy_env_dir ]

\* A registry: _commands, _bundle_sources, and the error a load raised.
Registry(cmds, sources, err) == [ commands |-> cmds, sources |-> sources, error |-> err ]

\* An entry that does not replace a command registered before.
RegisterEntry_KeepsFirst(reg, e, bundle_name, wrapper_env_dir) ==
    IF ~e.config.is_dict \/ ~e.config.has_environment \/ e.config.environment.t # "list"
       \/ e.config.alias.t \notin {"absent", "null", "list"}
       \/ e.name \in DOMAIN reg.commands
    THEN reg
    ELSE Registry(DictSet(reg.commands, e.name,
                          NewCommandDefinition(e.name, e.config.environment.l,
                              IF e.config.alias.t = "list" THEN e.config.alias ELSE NullV,
                              bundle_name, wrapper_env_dir)),
                  DictSet(reg.sources, e.name, IF bundle_name # "" THEN bundle_name ELSE "local"),
                  reg.error)

\* One iteration of load_from_file's loop: the entry is skipped when its
\* value is not an object, has no environment, has one that is not a list,
\* or has an alias that is neither None nor a list; otherwise it is
\* registered, over a command of that name if there is one.
RegisterEntry(reg, e, bundle_name, wrapper_env_dir) ==
    IF ~e.config.is_dict THEN reg
    ELSE IF ~e.config.has_environment THEN reg
    ELSE IF e.config.environment.t # "list" THEN reg
    ELSE LET alias == IF e.config.alias.t = "absent" THEN NullV ELSE e.config.alias
         IN  IF alias.t # "null" /\ alias.t # "list" THEN reg
             ELSE Registry(DictSet(reg.commands, e.name,
                                   NewCommandDefinition(e.name, e.config.environment.l, alias,
                                                        bundle_name, wrapper_env_dir)),
                           DictSet(reg.sources, e.name,
                                   IF bundle_name # "" THEN bundle_name ELSE "local"),
                           reg.error)

\* A loop that ends at the first entry it does not register.
RECURSIVE RegisterEntries_StopsAtInvalid(_, _, _, _, _)
RegisterEntries_StopsAtInvalid(reg, entries, i, bundle_name, wrapper_env_dir) ==
    IF i > Len(entries) THEN reg
    ELSE LET next == RegisterEntry(reg, entries[i], bundle_name, wrapper_env_dir)
         IN  IF next = reg THEN reg
             ELSE RegisterEntries_StopsAtInvalid(next, entries, i + 1, bundle_name, wrapper_env_dir)

\* for cmd_name, cmd_config in commands_data.items(), from item i on.
RECURSIVE RegisterEntries(_, _, _, _, _)
RegisterEntries(reg, entries, i, bundle_name, wrapper_env_dir) ==
    IF i > Len(entries) THEN reg
    ELSE RegisterEntries(RegisterEntry(reg, entries[i], bundle_name, wrapper_env_dir),
                         entries, i + 1, bundle_name, wrapper_env_dir)

\* load_from_file(commands_file, bundle_name): WrapperError when the file
\* is missing, is not JSON or is not an object; nothing is registered then.
load_from_file(reg, commands_file, bundle_name) ==
    IF ~commands_file.exists THEN [reg EXCEPT !.error = "WrapperError"]
    ELSE IF ~commands_file.json_ok THEN [reg EXCEPT !.error = "WrapperError"]
    ELSE IF commands_file.top # "dict" THEN [reg EXCEPT !.error = "WrapperError"]
    ELSE RegisterEntries(reg, commands_file.entries, 1, bundle_name, commands_file.dir)

\* One iteration of load_from_bundles: the bundle's commands.json is loaded
\* if it exists, and a WrapperError of the load is logged, not raised.
LoadOneBundle(reg, bundle) ==
    IF bundle.commands_json.exists
    THEN [ load_from_file(reg, bundle.commands_json, bndlid(bundle)) EXCEPT !.error = "" ]
    ELSE reg

\* load_from_bundles(bundles), from bundle i on.
RECURSIVE load_from_bundles(_, _, _)
load_from_bundles(reg, bundle_list, i) ==
    IF i > Len(bundle_list) THEN reg
    ELSE load_from_bundles(LoadOneBundle(reg, bundle_list[i]), bundle_list, i + 1)

\* The commands.json files of the bundles and of a bare envoy_env.
MayaOne == CommandEntry("maya", CommandConfig(TRUE, ListV(<<"maya_env.json">>), AbsentV))
NukeOne == CommandEntry("nuke", CommandConfig(TRUE, ListV(<<"maya", "nuke_env.json">>),
                                              ListV(<<"nuke.exe", "-t">>)))
MayaTwo == CommandEntry("maya", CommandConfig(TRUE, ListV(<<"maya2_env.json">>),
                                              ListV(<<"maya.bat", "-x">>)))

BundleCatalogue ==
    { \* two commands with an entry between them that is no object
      BundleInfo("gt", "one", {"commands.json", "maya_env.json", "global_env.json"},
          CommandsFile(EnvoyEnvOf("gt", "one"), TRUE, TRUE, "dict",
              << MayaOne, CommandEntry("bad", ScalarConfig), NukeOne >>)),
      \* maya again; an entry without environment; nuke with an environment
      \* that is a string
      BundleInfo("gt", "two", {"commands.json", "maya_env.json", "maya2_env.json"},
          CommandsFile(EnvoyEnvOf("gt", "two"), TRUE, TRUE, "dict",
              << CommandEntry("noenv", CommandConfig(FALSE, NullV, AbsentV)),
                 MayaTwo,
                 CommandEntry("nuke", CommandConfig(TRUE, StrV("nuke_env.json"), AbsentV)) >>)),
      \* maya with an alias that is a string, nuke with an environment that
      \* is null, houdini with an alias that is null
      BundleInfo("vfx", "one", {"commands.json", "global_env.json", "nuke_env.json"},
          CommandsFile(EnvoyEnvOf("vfx", "one"), TRUE, TRUE, "dict",
              << CommandEntry("maya", CommandConfig(TRUE, ListV(<<"x.json">>), StrV("maya"))),
                 CommandEntry("nuke", CommandConfig(TRUE, NullV, AbsentV)),
                 CommandEntry("houdini", CommandConfig(TRUE, ListV(<<>>), NullV)) >>)),
      \* commands.json is not JSON
      BundleInfo("gt", "broken", {"commands.json"},
          CommandsFile(EnvoyEnvOf("gt", "broken"), TRUE, FALSE, "scalar", <<>>)),
      \* commands.json is a JSON list
      BundleInfo("gt", "listed", {"commands.json", "maya_env.json"},
          CommandsFile(EnvoyEnvOf("gt", "listed"), TRUE, TRUE, "list", <<>>)),
      \* no commands.json
      BundleInfo("gt", "bare", {"nuke_env.json"},
          CommandsFile(EnvoyEnvOf("gt", "bare"), FALSE, FALSE, "scalar", <<>>)) }

\* The commands.json files a caller may hand to load_from_file itself.
BareCommandsFiles ==
    { CommandsFile(<<"w", "envoy_env">>, TRUE, TRUE, "dict",
          << CommandEntry("nuke", CommandConfig(TRUE, ListV(<<"nuke_env.json">>), NullV)),
             CommandEntry("maya", CommandConfig(TRUE, ListV(<<"maya_env.json">>), StrV("maya"))),
             CommandEntry("tool", CommandConfig(TRUE, ListV(<<"tool_env.json">>), ListV(<<>>))) >>),
      CommandsFile(<<"w", "envoy_env">>, TRUE, TRUE, "dict", <<>>),
      CommandsFile(<<"w", "envoy_env">>, TRUE, TRUE, "list", <<>>),
      CommandsFile(<<"w", "envoy_env">>, TRUE, FALSE, "scalar", <<>>),
      CommandsFile(<<"w", "envoy_env">>, FALSE, FALSE, "scalar", <<>>) }

\* A new registry is about to load a list of bundles.
InitLoad ==
    /\ EnvironmentIdle
    /\ RegistryIdle
    /\ ExpandIdle
    /\ ThreadsIdle
    /\ BuildIdle
    /\ MoreIdle
    /\ bundles \in SeqsUpTo(BundleCatalogue, MaxBundles)
    /\ bundle_idx = 1
    /\ _commands = EmptyDict /\ _bundle_sources = EmptyDict
    /\ load_pc = "bundles"
    /\ last_load = NoLoad

\* What a call of load_from_file did: its arguments, the registry before
\* it, and whether it raised.
LoadRecord(commands_file, bundle_name, before, raised) ==
    [ called |-> TRUE, commands_file |-> commands_file, bundle_name |-> bundle_name,
      before |-> before, raised |-> raised ]

\* load_from_bundles, one bundle of the list.
LoadBundle ==
    /\ load_pc = "bundles"
    /\ bundle_idx <= Len(bundles)
    /\ LET bundle == bundles[bundle_idx]
           before == Registry(_commands, _bundle_sources, "")
           after  == LoadOneBundle(before, bundle)
       IN  /\ _commands' = after.commands
           /\ _bundle_sources' = after.sources
           /\ last_load' =
                 IF bundle.commands_json.exists
                 THEN LoadRecord(bundle.commands_json, bndlid(bundle), before,
                                 load_from_file(before, bundle.commands_json,
                                                bndlid(bundle)).error # "")
                 ELSE last_load
    /\ bundle_idx' = bundle_idx + 1
    /\ UNCHANGED << bundles, load_pc >>
    /\ UNCHANGED not_ld_vars

\* load_from_bundles returns.
LoadBundlesReturn ==
    /\ load_pc = "bundles"
    /\ bundle_idx > Len(bundles)
    /\ load_pc' = "loaded"
    /\ UNCHANGED << bundles, bundle_idx, _commands, _bundle_sources, last_load >>
    /\ UNCHANGED not_ld_vars

\* registry.load_from_file(commands_file) on the loaded registry.
LoadFile ==
    /\ load_pc = "loaded"
    /\ \E cf \in BareCommandsFiles :
          LET before == Registry(_commands, _bundle_sources, "")
              after  == load_from_file(before, cf, "")
          IN  /\ _commands' = after.commands
              /\ _bundle_sources' = after.sources
              /\ last_load' = LoadRecord(cf, "", before, after.error # "")
              /\ load_pc' = IF after.error # "" THEN "raised" ELSE "file_loaded"
    /\ UNCHANGED << bundles, bundle_idx >>
    /\ UNCHANGED not_ld_vars

NextLoad ==
    \/ LoadBundle
    \/ LoadBundlesReturn
    \/ LoadFile

SpecLoad == InitLoad /\ [][NextLoad]_vars

(* ------------------------------------------------------------------ *)
(* envoy.proc: Environment.build and the calls that start a process     *)
(* ------------------------------------------------------------------ *)

\* bundles as _load_registry returns it: None, or the discovered list.
NoBundles == [ is_none |-> TRUE, list |-> <<>> ]
SomeBundles(l) == [ is_none |-> FALSE, list |-> l ]

\* commands_file or find_commands_file(): None, or the path of a file.
NoCommandsFile == [ given |-> FALSE ]
GivenFile(f) == [ given |-> TRUE, file |-> f ]

\* CommandRegistry()
NewRegistry == Registry(EmptyDict, EmptyDict, "")

\* not registry: CommandRegistry.__len__ is the number of commands.
IsEmptyRegistry(reg) == DOMAIN reg.commands = {}

\* The end of _load_registry: a registry that is still empty is filled
\* from the bare commands.json, and an error of that load leaves the
\* function as it is; the bundles found are returned in either case.
LoadFallback(from_bundles, found_bundles, file) ==
    IF IsEmptyRegistry(from_bundles) /\ file.given
    THEN [ registry |-> load_from_file(from_bundles, file.file, ""),
           bundles |-> found_bundles, seeded_from_file |-> TRUE ]
    ELSE [ registry |-> from_bundles, bundles |-> found_bundles,
           seeded_from_file |-> FALSE ]

\* _load_registry, given what discovery finds (found) and what
\* commands_file or find_commands_file() is (file): the discovered bundles
\* are loaded and kept as bundles when there are any, then the fallback.
\* registry.error tells whether the function raised.
_load_registry(found, file) ==
    IF found # <<>>
    THEN LoadFallback(load_from_bundles(NewRegistry, found, 1), SomeBundles(found), file)
    ELSE LoadFallback(NewRegistry, NoBundles, file)

\* registry.resolve_environment(command_name, _seen) over the commands
\* cmds: the (file, directory) pairs in load order, or WrapperError for a
\* cycle or a name that is not registered.
RECURSIVE resolve_environment(_, _, _)
RECURSIVE ResolveEntries(_, _, _, _)
resolve_environment(cmds, name, seen) ==
    IF name \in seen THEN [ error |-> "WrapperError", pairs |-> <<>> ]
    ELSE IF name \notin DOMAIN cmds THEN [ error |-> "WrapperError", pairs |-> <<>> ]
    ELSE ResolveEntries(cmds, cmds[name], 1, seen \cup {name})

\* for entry in cmd.environment, from entry i on.
ResolveEntries(cmds, cmd, i, seen) ==
    IF i > Len(cmd.environment) THEN [ error |-> "", pairs |-> <<>> ]
    ELSE LET entry == cmd.environment[i]
             first == IF IsReference(entry)
                      THEN resolve_environment(cmds, entry, seen)
                      ELSE [ error |-> "", pairs |-> << FilePair(entry, cmd) >> ]
         IN  IF first.error # "" THEN first
             ELSE LET rest == ResolveEntries(cmds, cmd, i + 1, seen)
                  IN  IF rest.error # "" THEN rest
                      ELSE [ error |-> "", pairs |-> Extend(first.pairs, rest.pairs) ]

\* bundle.env_files[name]
IndexedPath(bundle, name) == JoinPath(bundle.envoy_env, name)

\* The global_env.json of every bundle that has one, from bundle i on.
RECURSIVE BundleGlobals(_, _)
BundleGlobals(bundle_list, i) ==
    IF i > Len(bundle_list) THEN <<>>
    ELSE (IF "global_env.json" \in bundle_list[i].env_files
          THEN << IndexedPath(bundle_list[i], "global_env.json") >> ELSE <<>>)
         \o BundleGlobals(bundle_list, i + 1)

\* A lookup that stops at the first bundle that has the file.
RECURSIVE PathsIn_FirstBundleOnly(_, _, _)
PathsIn_FirstBundleOnly(env_file_name, bundle_list, j) ==
    IF j > Len(bundle_list) THEN <<>>
    ELSE IF env_file_name \in bundle_list[j].env_files
         THEN << IndexedPath(bundle_list[j], env_file_name) >>
         ELSE PathsIn_FirstBundleOnly(env_file_name, bundle_list, j + 1)

\* The inner loop: the path of one file in every bundle that has it, from
\* bundle j on.
RECURSIVE PathsIn(_, _, _)
PathsIn(env_file_name, bundle_list, j) ==
    IF j > Len(bundle_list) THEN <<>>
    ELSE (IF env_file_name \in bundle_list[j].env_files
          THEN << IndexedPath(bundle_list[j], env_file_name) >> ELSE <<>>)
         \o PathsIn(env_file_name, bundle_list, j + 1)

\* The outer loop over the resolved pairs, from pair i on.
RECURSIVE BundleFiles(_, _, _)
BundleFiles(pairs, i, bundle_list) ==
    IF i > Len(pairs) THEN <<>>
    ELSE PathsIn(pairs[i][1], bundle_list, 1) \o BundleFiles(pairs, i + 1, bundle_list)

\* The single-file branch of _collect_env_files: global_env.json of the
\* command's directory when it exists, then the resolved files, all of
\* which must exist.
CollectBeside(global_env, paths, on_disk) ==
    IF paths.ok
    THEN [ error |-> "",
           env_files |-> (IF global_env \in on_disk THEN << global_env >> ELSE <<>>)
                         \o paths.files,
           mode |-> "single-file" ]
    ELSE [ error |-> "EnvironmentBuildError", env_files |-> <<>>, mode |-> "single-file" ]

\* A collection that refuses a resolved name no bundle has indexed.
CollectResolved_UnindexedRaises(cmd, res, bundle_arg, on_disk) ==
    IF res.error # ""
    THEN [ error |-> "EnvironmentBuildError", env_files |-> <<>>, mode |-> "" ]
    ELSE IF ~bundle_arg.is_none /\ bundle_arg.list # <<>>
    THEN IF \E i \in 1..Len(res.pairs) : PathsIn(res.pairs[i][1], bundle_arg.list, 1) = <<>>
         THEN [ error |-> "EnvironmentBuildError", env_files |-> <<>>, mode |-> "multi-bundle" ]
         ELSE [ error |-> "",
                env_files |-> BundleGlobals(bundle_arg.list, 1)
                              \o BundleFiles(res.pairs, 1, bundle_arg.list),
                mode |-> "multi-bundle" ]
    ELSE CollectBeside(JoinPath(cmd.envoy_env_dir, "global_env.json"),
                       LegacyPaths(res.pairs, 1, cmd.envoy_env_dir, on_disk), on_disk)

\* _collect_env_files once the command cmd is resolved to res: the
\* resolver's WrapperError as EnvironmentBuildError, then the bundles'
\* files when bundles is a list that is not empty, the files beside
\* commands.json otherwise.
CollectResolved(cmd, res, bundle_arg, on_disk) ==
    IF res.error # ""
    THEN [ error |-> "EnvironmentBuildError", env_files |-> <<>>, mode |-> "" ]
    ELSE IF ~bundle_arg.is_none /\ bundle_arg.list # <<>>
    THEN [ error |-> "",
           env_files |-> BundleGlobals(bundle_arg.list, 1)
                         \o BundleFiles(res.pairs, 1, bundle_arg.list),
           mode |-> "multi-bundle" ]
    ELSE CollectBeside(JoinPath(cmd.envoy_env_dir, "global_env.json"),
                       LegacyPaths(res.pairs, 1, cmd.envoy_env_dir, on_disk), on_disk)

\* _collect_env_files(command_name, registry, bundles), on_disk being the
\* files that exist: CommandNotFoundError for a name that is not
\* registered, else the files of the resolved environment.
_collect_env_files(name, registry, bundle_arg, on_disk) ==
    IF name \notin DOMAIN registry.commands
    THEN [ error |-> "CommandNotFoundError", env_files |-> <<>>, mode |-> "" ]
    ELSE CollectResolved(registry.commands[name],
                         resolve_environment(registry.commands, name, {}),
                         bundle_arg, on_disk)

\* EnvironmentManager.prepare_environment(env_files), as far as a build
\* depends on it: WrapperError when one of the files cannot be loaded.
PrepareFails(files, broken) == \E i \in 1..Len(files) : files[i] \in broken

\* _prepare_env after the files are collected as c: the environment is
\* prepared, and a WrapperError of that is raised as EnvironmentBuildError.
PrepareCollected(c, broken) ==
    IF c.error # ""
    THEN [ error |-> c.error, env_files |-> <<>>, mode |-> c.mode, parsed |-> FALSE ]
    ELSE [ error |-> IF PrepareFails(c.env_files, broken) THEN "EnvironmentBuildError" ELSE "",
           env_files |-> c.env_files, mode |-> c.mode, parsed |-> TRUE ]

\* _prepare_env(command_name, registry, bundles, ...)
_prepare_env(name, registry, bundle_arg, world) ==
    IF name \notin DOMAIN registry.commands
    THEN [ error |-> "CommandNotFoundError", env_files |-> <<>>, mode |-> "", parsed |-> FALSE ]
    ELSE PrepareCollected(_collect_env_files(name, registry, bundle_arg, world.on_disk),
                          world.broken)

\* _is_raw_path(spec): the spec holds os.sep or "/" (an absolute path holds
\* one of them).
_is_raw_path(spec, os_nm) ==
    HasChar(spec, "/") \/ (os_nm = "nt" /\ HasChar(spec, "\\"))

\* CommandDefinition.executable and CommandDefinition.base_args: an alias
\* that is None or empty gives the name and no arguments.
executable(cmd_def) ==
    IF cmd_def.alias.t = "list" /\ cmd_def.alias.l # <<>> THEN cmd_def.alias.l[1]
    ELSE cmd_def.name

base_args(cmd_def) ==
    IF cmd_def.alias.t = "list" /\ Len(cmd_def.alias.l) > 1 THEN Tail(cmd_def.alias.l)
    ELSE <<>>

\* str.lower() on the letters that file suffixes are written in.
LowerOf ==
    [ A |-> "a", B |-> "b", C |-> "c", D |-> "d", E |-> "e", M |-> "m", T |-> "t", X |-> "x" ]

RECURSIVE Lower(_)
Lower(str) ==
    IF str = "" THEN ""
    ELSE LET c == SubSeq(str, 1, 1)
         IN  (IF c \in DOMAIN LowerOf THEN LowerOf[c] ELSE c) \o Lower(SubSeq(str, 2, Len(str)))

\* The last separator of a Windows path at or before position i, 0 if none.
RECURSIVE LastSep(_, _)
LastSep(str, i) ==
    IF i = 0 THEN 0
    ELSE IF CharAt(str, i) \in { "/", "\\" } THEN i
    ELSE LastSep(str, i - 1)

\* The last dot of str at or before position i, 0 if none.
RECURSIVE LastDot(_, _)
LastDot(str, i) ==
    IF i = 0 THEN 0
    ELSE IF CharAt(str, i) = "." THEN i
    ELSE LastDot(str, i - 1)

\* Path(p).suffix where os.name is "nt", for a path that does not end in a
\* separator: the last component from its last dot on, unless that dot
\* begins or ends the component.
Suffix(p) ==
    LET nm == SubSeq(p, LastSep(p, Len(p)) + 1, Len(p))
        i  == LastDot(nm, Len(nm))
    IN  IF i > 1 /\ i < Len(nm) THEN SubSeq(nm, i, Len(nm)) ELSE ""

\* A command line that never goes through cmd.
FullCommand_NeverCmd(first, rest, os_nm) == << first >> \o rest

\* full_cmd of _popen and _raw_popen: the executable and its arguments,
\* behind cmd /c when a batch file is started on Windows.
FullCommand(first, rest, os_nm) ==
    LET full_cmd == << first >> \o rest
    IN  IF os_nm = "nt" /\ Lower(Suffix(first)) \in { ".bat", ".cmd" }
        THEN << "cmd", "/c" >> \o full_cmd
        ELSE full_cmd

\* ProcessExecutor.resolve_executable(executable, search_path): a path of
\* the executable, or WrapperError when none is found. Which of them is
\* for the file system to decide.
resolve_executable(exe) ==
    { [ error |-> "WrapperError", path |-> "" ],
      [ error |-> "", path |-> exe ],
      [ error |-> "", path |-> "/bin/" \o exe ] }

\* _popen(cmd_def, extra_args, env) once the executable is resolved to r:
\* the resolver's WrapperError as EnvironmentBuildError, else the process.
_popen(cmd_def, extra_args, r, os_nm) ==
    IF r.error # ""
    THEN [ error |-> "EnvironmentBuildError", argv |-> <<>> ]
    ELSE [ error |-> "", argv |-> FullCommand(r.path, base_args(cmd_def) \o extra_args, os_nm) ]

\* _raw_popen(executable, extra_args, env)
_raw_popen(exe, extra_args, os_nm) ==
    [ error |-> "", argv |-> FullCommand(exe, extra_args, os_nm) ]

\* subprocess.Popen(full_cmd, ...), with what led to it: whether the
\* command is a path, the caller's arguments, the executable looked for
\* and what it resolved to.
Process(raw, args, asked, found, argv) ==
    [ started |-> TRUE, raw |-> raw, args |-> args, asked |-> asked,
      resolved |-> found, argv |-> argv ]

\* The directory of the bare commands.json.
WrapperDir == << "w", "envoy_env" >>

\* The bare commands.json files an instance may be given or may find: the
\* ones above, and one with a cycle, a reference to nothing and a batch
\* file written in capitals.
BuildCommandsFiles ==
    BareCommandsFiles \cup
    { CommandsFile(WrapperDir, TRUE, TRUE, "dict",
          << CommandEntry("loop", CommandConfig(TRUE, ListV(<<"back">>), NullV)),
             CommandEntry("back", CommandConfig(TRUE, ListV(<<"nuke_env.json", "loop">>), NullV)),
             CommandEntry("dangling", CommandConfig(TRUE, ListV(<<"nowhere">>), NullV)),
             CommandEntry("shout", CommandConfig(TRUE, ListV(<<>>),
                                                 ListV(<<"RUN.CMD", "/q">>))) >>) }

CommandsFileArguments == { NoCommandsFile } \cup { GivenFile(f) : f \in BuildCommandsFiles }

\* The bundle of the catalogue with the given id.
Bundle(id) == CHOOSE b \in BundleCatalogue : bndlid(b) = id

\* What discovery may return: nothing, bundles with commands, and bundles
\* that register none.
DiscoveredLists ==
    { <<>>,
      << Bundle("gt:one"), Bundle("gt:two") >>,
      << Bundle("gt:two"), Bundle("vfx:one"), Bundle("gt:one") >>,
      << Bundle("gt:bare") >>,
      << Bundle("gt:broken"), Bundle("gt:bare") >> }

\* The commands an Environment is made for: registered names, a name that
\* is nowhere, a path, and a name that is a path on Windows only.
BuildCommands ==
    { "maya", "nuke", "tool", "ghost", "loop", "dangling", "shout",
      "/opt/run.bat", "bin\\run" }

\* The environment files beside the bare commands.json.
WrapperFiles ==
    { JoinPath(WrapperDir, f) :
        f \in { "global_env.json", "nuke_env.json", "maya_env.json", "tool_env.json" } }

\* The env files on disk: which of those beside the bare commands.json
\* exist (a bundle's index holds existing files only), and which files
\* cannot be loaded.
EnvDisks ==
    { [ on_disk |-> WrapperFiles, broken |-> {} ],
      [ on_disk |-> WrapperFiles \ { JoinPath(WrapperDir, "global_env.json"),
                                     JoinPath(WrapperDir, "tool_env.json") },
        broken |-> {} ],
      [ on_disk |-> WrapperFiles,
        broken |-> { JoinPath(WrapperDir, "nuke_env.json"),
                     JoinPath(EnvoyEnvOf("gt", "two"), "maya2_env.json") } ] }

\* The arguments and keyword arguments of the calls, and the exit codes.
CallerArgs == { <<>>, << "-v" >> }
ExitCodes == { 0, 1 }

\* Environment(command, bundle_roots=..., commands_file=...)
InitBuild ==
    /\ EnvironmentIdle
    /\ RegistryIdle
    /\ ExpandIdle
    /\ ThreadsIdle
    /\ LoadIdle
    /\ MoreIdle
    /\ discovered \in DiscoveredLists
    /\ bare_file \in CommandsFileArguments
    /\ env_disk \in EnvDisks
    /\ platform \in { "posix", "nt" }
    /\ _command \in BuildCommands
    /\ _env = 0
    /\ _cmd_def = [ none |-> TRUE ]
    /\ calls = 0 /\ discoveries = 0 /\ prepared = 0
    /\ build_returns = <<>>
    /\ last_build = NoBuild
    /\ spawned = NoProcess
    /\ api_error = ""

\* What build() found, for the history.
BuildRecord(loaded, prep) ==
    [ ran |-> TRUE,
      bundles |-> loaded.bundles, seeded_from_file |-> loaded.seeded_from_file,
      commands |-> loaded.registry.commands,
      mode |-> prep.mode, env_files |-> prep.env_files, error |-> prep.error ]

\* self._env, self._cmd_def = _prepare_env(...): assigned when it returns.
BuildPrepared(loaded, prep) ==
    [ error |-> prep.error,
      env |-> IF prep.error = "" THEN prepared + 1 ELSE 0,
      cmd_def |-> IF prep.error = "" THEN loaded.registry.commands[_command] ELSE _cmd_def,
      discovered_now |-> 1,
      prepared_now |-> IF prep.parsed THEN 1 ELSE 0,
      record |-> BuildRecord(loaded, prep) ]

\* build() of a command name after _load_registry: its error, if it
\* raised, is the error of build(); else _prepare_env follows.
BuildLoaded(loaded) ==
    IF loaded.registry.error # ""
    THEN [ error |-> loaded.registry.error, env |-> 0, cmd_def |-> _cmd_def,
           discovered_now |-> 1, prepared_now |-> 0,
           record |-> BuildRecord(loaded, [ mode |-> "", env_files |-> <<>>,
                                            error |-> loaded.registry.error ]) ]
    ELSE BuildPrepared(loaded,
                       _prepare_env(_command, loaded.registry, loaded.bundles, env_disk))

\* What build() computes when _env is None: for a path, an environment
\* of the seed alone and a definition whose alias is the path; for a
\* name, _load_registry and _prepare_env.
BuildFresh ==
    IF _is_raw_path(_command, platform)
    THEN [ error |-> "", env |-> prepared + 1,
           cmd_def |-> NewCommandDefinition(_command, <<>>, ListV(<< _command >>), "", <<>>),
           discovered_now |-> 0, prepared_now |-> 1, record |-> last_build ]
    ELSE BuildLoaded(_load_registry(discovered, bare_file))

\* What build() does in the current state: nothing when _env is set,
\* else what it computes.
BuildOutcome ==
    IF _env # 0
    THEN [ error |-> "", env |-> _env, cmd_def |-> _cmd_def,
           discovered_now |-> 0, prepared_now |-> 0, record |-> last_build ]
    ELSE BuildFresh

\* The assignments of a call of build() with outcome b, and its return.
RunBuild(b) ==
    /\ _env' = b.env
    /\ _cmd_def' = b.cmd_def
    /\ discoveries' = discoveries + b.discovered_now
    /\ prepared' = prepared + b.prepared_now
    /\ last_build' = b.record
    /\ build_returns' = IF b.error = "" THEN Append(build_returns, b.env) ELSE build_returns

\* spawn(args) after its build() with outcome b, the executable resolving
\* to r: the error raised and the command line started.
Started(b, args, r) ==
    IF b.error # "" THEN [ error |-> b.error, argv |-> <<>> ]
    ELSE IF _is_raw_path(_command, platform) THEN _raw_popen(_command, args, platform)
    ELSE _popen(b.cmd_def, args, r, platform)

\* The process spawn(args) starts, or the one before if it raises.
SpawnedBy(b, st, args, r) ==
    IF st.error # "" THEN spawned
    ELSE IF _is_raw_path(_command, platform)
    THEN Process(TRUE, args, _command, _command, st.argv)
    ELSE Process(FALSE, args, executable(b.cmd_def), r.path, st.argv)

\* spawn(args) with outcome st, and the error the call ends with
\* (after_error, unless one was raised before).
RunStarted(b, st, args, r, after_error) ==
    /\ RunBuild(b)
    /\ spawned' = SpawnedBy(b, st, args, r)
    /\ api_error' = IF st.error # "" THEN st.error ELSE after_error

\* A call that gets as far as spawn(args): build() with outcome b, then
\* the process.
RunSpawn(b, args, r, after_error) == RunStarted(b, Started(b, args, r), args, r, after_error)

\* A call that raises ValueError before it does anything.
RaiseValueError ==
    /\ api_error' = "ValueError"
    /\ UNCHANGED << _env, _cmd_def, discoveries, prepared, last_build, build_returns, spawned >>

\* No executable was looked for.
NotResolved == [ error |-> "", path |-> "" ]

\* What _popen's resolve_executable may return after a build() with
\* outcome b; it is called for a registered command only.
Resolutions(b) ==
    IF b.error = "" /\ ~_is_raw_path(_command, platform)
    THEN resolve_executable(executable(b.cmd_def))
    ELSE { NotResolved }

\* build() with outcome b, called by the user.
BuildReturns(b) ==
    /\ RunBuild(b)
    /\ api_error' = b.error

\* spawn(args) after a build() with outcome b; the exit code matters to
\* the callers that check it (checked).
SpawnAfter(b, checked) ==
    \E args \in CallerArgs, r \in Resolutions(b),
       rc \in IF checked THEN ExitCodes ELSE { 0 } :
        RunSpawn(b, args, r, IF rc # 0 THEN "CalledProcessError" ELSE "")

\* Environment.build()
Build ==
    /\ calls < MaxCalls
    /\ calls' = calls + 1
    /\ BuildReturns(BuildOutcome)
    /\ UNCHANGED << discovered, bare_file, env_disk, platform, _command, spawned >>
    /\ UNCHANGED not_bld_vars

\* Environment.spawn(args)
Spawn ==
    /\ calls < MaxCalls
    /\ calls' = calls + 1
    /\ SpawnAfter(BuildOutcome, FALSE)
    /\ UNCHANGED << discovered, bare_file, env_disk, platform, _command >>
    /\ UNCHANGED not_bld_vars

\* Environment.call(args, **kwargs): ValueError when stdout or stderr is
\* PIPE, else spawn and wait.
Call ==
    /\ calls < MaxCalls
    /\ calls' = calls + 1
    /\ \/ RaiseValueError
       \/ SpawnAfter(BuildOutcome, FALSE)
    /\ UNCHANGED << discovered, bare_file, env_disk, platform, _command >>
    /\ UNCHANGED not_bld_vars

\* Environment.check_call(args, **kwargs): call, then CalledProcessError
\* for an exit code that is not 0.
CheckCall ==
    /\ calls < MaxCalls
    /\ calls' = calls + 1
    /\ \/ RaiseValueError
       \/ SpawnAfter(BuildOutcome, TRUE)
    /\ UNCHANGED << discovered, bare_file, env_disk, platform, _command >>
    /\ UNCHANGED not_bld_vars

\* Environment.check_output(args, **kwargs): ValueError for a stdout
\* argument or for input together with stdin, else spawn with stdout=PIPE
\* and CalledProcessError for an exit code that is not 0.
CheckOutput ==
    /\ calls < MaxCalls
    /\ calls' = calls + 1
    /\ \/ RaiseValueError
       \/ SpawnAfter(BuildOutcome, TRUE)
    /\ UNCHANGED << discovered, bare_file, env_disk, platform, _command >>
    /\ UNCHANGED not_bld_vars

NextBuild ==
    \/ Build
    \/ Spawn
    \/ Call
    \/ CheckCall
    \/ CheckOutput

SpecBuild == InitBuild /\ [][NextBuild]_vars

(* ------------------------------------------------------------------ *)
(* envoy.proc: the keyword and cmd checks of the calls                 *)
(* ------------------------------------------------------------------ *)

\* The stdout and stderr keywords of a call: "" when not given.
Kwargs == { [ stdout |-> o, stderr |-> e ] : o \in { "", "PIPE" }, e \in { "", "PIPE" } }

\* The cmd lists handed to the free functions: [command, arg, ...] or [].
CmdLists == { <<>> } \cup { << _command >> \o a : a \in CallerArgs }

FreeFunctions == { "call", "spawn", "check_call", "check_output" }

\* What a call was asked: the function, cmd and the keywords; at is the
\* number of the call.
Request(fn, cmd_list, kw) ==
    [ fn |-> fn, cmd |-> cmd_list, stdout |-> kw.stdout, stderr |-> kw.stderr,
      at |-> calls + 1 ]

\* A check that looks at stdout only.
AsksForPipe_StdoutOnly(kw) == kw.stdout = "PIPE"

\* kwargs.get('stdout') is PIPE or kwargs.get('stderr') is PIPE
AsksForPipe(kw) == kw.stdout = "PIPE" \/ kw.stderr = "PIPE"

\* self.spawn(args, **kwargs) and what follows it, the build() of spawn
\* having outcome b.
SpawnWith(b, args, checked) ==
    \E r \in Resolutions(b), rc \in IF checked THEN ExitCodes ELSE { 0 } :
        RunSpawn(b, args, r, IF rc # 0 THEN "CalledProcessError" ELSE "")

\* Environment.call(args, **kwargs), and check_call on top of it.
EnvironmentCall(b, args, kw, checked) ==
    IF AsksForPipe(kw) THEN RaiseValueError ELSE SpawnWith(b, args, checked)

\* Environment.check_output(args, **kwargs): stdout belongs to the method.
EnvironmentCheckOutput(b, args, kw) ==
    IF kw.stdout # "" THEN RaiseValueError ELSE SpawnWith(b, args, TRUE)

\* The instance is one the caller holds: no free function made it.
OwnInstance == request.fn \notin FreeFunctions

\* A free function makes its own Environment(cmd[0], ...).
NewInstance == request = NoRequest /\ calls = 0

\* env.spawn(args)
MethodSpawn ==
    /\ OwnInstance
    /\ calls < MaxCalls
    /\ calls' = calls + 1
    /\ \E args \in CallerArgs :
          /\ request' = Request("Environment.spawn", << _command >> \o args,
                                [ stdout |-> "", stderr |-> "" ])
          /\ SpawnWith(BuildOutcome, args, FALSE)
    /\ UNCHANGED << discovered, bare_file, env_disk, platform, _command >>
    /\ UNCHANGED << core_but_bld, cli_vars, leg_vars, run_vars, thr_vars >>

\* env.call(args, **kwargs)
MethodCall ==
    /\ OwnInstance
    /\ calls < MaxCalls
    /\ calls' = calls + 1
    /\ \E args \in CallerArgs, kw \in Kwargs :
          /\ request' = Request("Environment.call", << _command >> \o args, kw)
          /\ EnvironmentCall(BuildOutcome, args, kw, FALSE)
    /\ UNCHANGED << discovered, bare_file, env_disk, platform, _command >>
    /\ UNCHANGED << core_but_bld, cli_vars, leg_vars, run_vars, thr_vars >>

\* proc.call(cmd, **kwargs)
FunctionCall ==
    /\ NewInstance
    /\ calls' = calls + 1
    /\ \E c \in CmdLists, kw \in Kwargs :
          /\ request' = Request("call", c, kw)
          /\ IF c = <<>> THEN RaiseValueError
             ELSE EnvironmentCall(BuildOutcome, Tail(c), kw, FALSE)
    /\ UNCHANGED << discovered, bare_file, env_disk, platform, _command >>
    /\ UNCHANGED << core_but_bld, cli_vars, leg_vars, run_vars, thr_vars >>

\* proc.spawn(cmd, **kwargs)
FunctionSpawn ==
    /\ NewInstance
    /\ calls' = calls + 1
    /\ \E c \in CmdLists, kw \in Kwargs :
          /\ request' = Request("spawn", c, kw)
          /\ IF c = <<>> THEN RaiseValueError
             ELSE SpawnWith(BuildOutcome, Tail(c), FALSE)
    /\ UNCHANGED << discovered, bare_file, env_disk, platform, _command >>
    /\ UNCHANGED << core_but_bld, cli_vars, leg_vars, run_vars, thr_vars >>

\* proc.check_call(cmd, **kwargs): call(cmd, ...) and a check of its result.
FunctionCheckCall ==
    /\ NewInstance
    /\ calls' = calls + 1
    /\ \E c \in CmdLists, kw \in Kwargs :
          /\ request' = Request("check_call", c, kw)
          /\ IF c = <<>> THEN RaiseValueError
             ELSE EnvironmentCall(BuildOutcome, Tail(c), kw, TRUE)
    /\ UNCHANGED << discovered, bare_file, env_disk, platform, _command >>
    /\ UNCHANGED << core_but_bld, cli_vars, leg_vars, run_vars, thr_vars >>

\* proc.check_output(cmd, **kwargs)
FunctionCheckOutput ==
    /\ NewInstance
    /\ calls' = calls + 1
    /\ \E c \in CmdLists, kw \in Kwargs :
          /\ request' = Request("check_output", c, kw)
          /\ IF c = <<>> THEN RaiseValueError
             ELSE EnvironmentCheckOutput(BuildOutcome, Tail(c), kw)
    /\ UNCHANGED << discovered, bare_file, env_disk, platform, _command >>
    /\ UNCHANGED << core_but_bld, cli_vars, leg_vars, run_vars, thr_vars >>

NextApi ==
    \/ MethodSpawn
    \/ MethodCall
    \/ FunctionCall
    \/ FunctionSpawn
    \/ FunctionCheckCall
    \/ FunctionCheckOutput

\* The instances the checks are tried on: a registered command, a name
\* that is nowhere, and a path.
ApiCommands == { "maya", "ghost", "/opt/run.bat" }

InitApi ==
    /\ EnvironmentIdle
    /\ RegistryIdle
    /\ ExpandIdle
    /\ ThreadsIdle
    /\ LoadIdle
    /\ ApiIdle
    /\ CliIdle
    /\ LegacyIdle
    /\ RunIdle
    /\ SharedIdle
    /\ discovered \in DiscoveredLists
    /\ bare_file \in CommandsFileArguments
    /\ env_disk \in EnvDisks
    /\ _env = 0
    /\ _cmd_def = [ none |-> TRUE ]
    /\ calls = 0 /\ discoveries = 0 /\ prepared = 0
    /\ build_returns = <<>>
    /\ last_build = NoBuild
    /\ spawned = NoProcess
    /\ api_error = ""
    /\ _command \in ApiCommands
    /\ platform = "posix"

SpecApi == InitApi /\ [][NextApi]_vars

(* ------------------------------------------------------------------ *)
(* envoy.proc: one Environment instance called by several threads      *)
(* ------------------------------------------------------------------ *)

\* The methods the threads call; call() is spawn() and a wait.
ThreadOps == { "build", "spawn", "call" }

\* Nothing computed that is yet to be stored.
NothingBuilt == [ env |-> 0 ]

\* What discovery returns for the shared instance: nothing, or bundles
\* with commands.
SharedDiscovered == { <<>>, << Bundle("gt:one"), Bundle("gt:two") >> }

\* One instance made without a commands file, and the threads outside
\* any call.
InitShared ==
    /\ EnvironmentIdle
    /\ RegistryIdle
    /\ ExpandIdle
    /\ ThreadsIdle
    /\ LoadIdle
    /\ ApiIdle
    /\ CliIdle
    /\ LegacyIdle
    /\ RunIdle
    /\ discovered \in SharedDiscovered
    /\ bare_file = NoCommandsFile
    /\ env_disk \in EnvDisks
    /\ _env = 0
    /\ _cmd_def = [ none |-> TRUE ]
    /\ calls = 0 /\ discoveries = 0 /\ prepared = 0
    /\ build_returns = <<>>
    /\ last_build = NoBuild
    /\ spawned = NoProcess
    /\ api_error = ""
    /\ _command \in ApiCommands
    /\ platform = "posix"
    /\ thr_pc = [ t \in Threads |-> "idle" ]
    /\ thr_op = [ t \in Threads |-> "" ]
    /\ thr_built = [ t \in Threads |-> NothingBuilt ]
    /\ assert_failed = {}

\* The variables of the instance no step of a thread changes.
shared_fixed == << discovered, bare_file, env_disk, platform, _command >>

\* What the steps of the threads leave alone outside the instance.
not_shared_vars == << core_but_bld, api_vars, cli_vars, leg_vars, run_vars >>

\* A thread calls build(), spawn() or call() of the instance.
ThreadCalls(t) ==
    /\ thr_pc[t] = "idle"
    /\ calls < MaxCalls
    /\ calls' = calls + 1
    /\ \E op \in ThreadOps : thr_op' = [ thr_op EXCEPT ![t] = op ]
    /\ thr_pc' = [ thr_pc EXCEPT ![t] = "check" ]
    /\ UNCHANGED << shared_fixed, _env, _cmd_def, discoveries, prepared, build_returns,
                    last_build, spawned, api_error, thr_built, assert_failed >>
    /\ UNCHANGED not_shared_vars

\* build(): if self._env is None
ThreadChecks(t) ==
    /\ thr_pc[t] = "check"
    /\ thr_pc' = [ thr_pc EXCEPT ![t] = IF _env = 0 THEN "compute" ELSE "built" ]
    /\ UNCHANGED << shared_fixed, _env, _cmd_def, calls, discoveries, prepared,
                    build_returns, last_build, spawned, api_error, thr_op, thr_built,
                    assert_failed >>
    /\ UNCHANGED not_shared_vars

\* build(): the environment and the definition are computed (outcome b);
\* an error leaves build() and the call.
ThreadComputesAs(t, b) ==
    /\ thr_pc[t] = "compute"
    /\ discoveries' = discoveries + b.discovered_now
    /\ prepared' = prepared + b.prepared_now
    /\ last_build' = b.record
    /\ IF b.error # ""
       THEN /\ api_error' = b.error
            /\ thr_pc' = [ thr_pc EXCEPT ![t] = "idle" ]
            /\ thr_built' = thr_built
       ELSE /\ api_error' = api_error
            /\ thr_pc' = [ thr_pc EXCEPT ![t] = "store_env" ]
            /\ thr_built' = [ thr_built EXCEPT ![t] = [ env |-> b.env, cmd_def |-> b.cmd_def ] ]
    /\ UNCHANGED << shared_fixed, _env, _cmd_def, calls, build_returns, spawned, thr_op,
                    assert_failed >>
    /\ UNCHANGED not_shared_vars

ThreadComputes(t) == ThreadComputesAs(t, BuildFresh)

\* build(): the store of self._env, the first of the two.
ThreadStoresEnv(t) ==
    /\ thr_pc[t] = "store_env"
    /\ _env' = thr_built[t].env
    /\ thr_pc' = [ thr_pc EXCEPT ![t] = "store_cmd_def" ]
    /\ UNCHANGED << shared_fixed, _cmd_def, calls, discoveries, prepared, build_returns,
                    last_build, spawned, api_error, thr_op, thr_built, assert_failed >>
    /\ UNCHANGED not_shared_vars

\* build(): the store of self._cmd_def, the second.
ThreadStoresCmdDef(t) ==
    /\ thr_pc[t] = "store_cmd_def"
    /\ _cmd_def' = thr_built[t].cmd_def
    /\ thr_built' = [ thr_built EXCEPT ![t] = NothingBuilt ]
    /\ thr_pc' = [ thr_pc EXCEPT ![t] = "built" ]
    /\ UNCHANGED << shared_fixed, _env, calls, discoveries, prepared, build_returns,
                    last_build, spawned, api_error, thr_op, assert_failed >>
    /\ UNCHANGED not_shared_vars

\* build(): return self._env, to the user or to spawn().
ThreadReturnsFromBuild(t) ==
    /\ thr_pc[t] = "built"
    /\ IF thr_op[t] = "build"
       THEN /\ build_returns' = Append(build_returns, _env)
            /\ thr_pc' = [ thr_pc EXCEPT ![t] = "idle" ]
       ELSE /\ build_returns' = build_returns
            /\ thr_pc' = [ thr_pc EXCEPT ![t] = "assert" ]
    /\ UNCHANGED << shared_fixed, _env, _cmd_def, calls, discoveries, prepared,
                    last_build, spawned, api_error, thr_op, thr_built, assert_failed >>
    /\ UNCHANGED not_shared_vars

\* assert self._cmd_def is not None and self._env is not None
AssertHolds == _cmd_def # [ none |-> TRUE ] /\ _env # 0

\* spawn(): the assert after build().
ThreadAsserts(t) ==
    /\ thr_pc[t] = "assert"
    /\ IF AssertHolds
       THEN /\ thr_pc' = [ thr_pc EXCEPT ![t] = "popen" ]
            /\ UNCHANGED << assert_failed, api_error >>
       ELSE /\ thr_pc' = [ thr_pc EXCEPT ![t] = "idle" ]
            /\ assert_failed' = assert_failed \cup { t }
            /\ api_error' = "AssertionError"
    /\ UNCHANGED << shared_fixed, _env, _cmd_def, calls, discoveries, prepared,
                    build_returns, last_build, spawned, thr_op, thr_built >>
    /\ UNCHANGED not_shared_vars

\* The instance as spawn() reads it after the assert.
AsBuilt == [ error |-> "", env |-> _env, cmd_def |-> _cmd_def ]

\* spawn(): _raw_popen or _popen with the two attributes (b).
ThreadSpawnsWith(t, b) ==
    /\ thr_pc[t] = "popen"
    /\ \E args \in CallerArgs, r \in Resolutions(b) :
         /\ spawned' = SpawnedBy(b, Started(b, args, r), args, r)
         /\ api_error' = Started(b, args, r).error
    /\ thr_pc' = [ thr_pc EXCEPT ![t] = "idle" ]
    /\ UNCHANGED << shared_fixed, _env, _cmd_def, calls, discoveries, prepared,
                    build_returns, last_build, thr_op, thr_built, assert_failed >>
    /\ UNCHANGED not_shared_vars

ThreadSpawns(t) == ThreadSpawnsWith(t, AsBuilt)

NextShared ==
    \E t \in Threads :
        \/ ThreadCalls(t)
        \/ ThreadChecks(t)
        \/ ThreadComputes(t)
        \/ ThreadStoresEnv(t)
        \/ ThreadStoresCmdDef(t)
        \/ ThreadReturnsFromBuild(t)
        \/ ThreadAsserts(t)
        \/ ThreadSpawns(t)

SpecShared == InitShared /\ [][NextShared]_vars

(* ------------------------------------------------------------------ *)
(* The command line: show_command_info                                 *)
(* ------------------------------------------------------------------ *)

\* The attributes of the CommandDefinition classes a registry may hold:
\* the class of gt.envoy, the class of gt.app.wrapper, and a class with
\* every attribute show_command_info reads.
DefinitionAttributes ==
    { { "name", "environment", "alias", "bundle", "envoy_env_dir",
        "executable", "base_args" },
      { "name", "environment", "alias", "package", "wrapper_env_dir",
        "executable", "base_args" },
      { "name", "environment", "alias", "package", "envoy_env_dir",
        "executable", "base_args" } }

\* What one pass of `for env_file in cmd.environment` prints: the entry.
ListedEntry(cmd, i) == << cmd.environment[i] >>

\* A registry, and the command --info is asked about.
InitInfo ==
    /\ EnvironmentIdle
    /\ ExpandIdle
    /\ ThreadsIdle
    /\ LoadIdle
    /\ BuildIdle
    /\ ApiIdle
    /\ LegacyIdle
    /\ RunIdle
    /\ SharedIdle
    /\ commands \in Registries
    /\ command_name \in CommandNames
    /\ caller = ""
    /\ stack = <<>>
    /\ resolved_env = <<>>
    /\ res_error = ""
    /\ res_pc = "idle"
    /\ disk = {}
    /\ collected = <<>>
    /\ attrs \in DefinitionAttributes
    /\ listed = <<>> /\ info_idx = 0 /\ info_rc = -1
    /\ info_pc = "start"

\* show_command_info up to its loop: registry.get, the error and 1 for a
\* name that is not registered, else the heading lines, which read
\* cmd.package (AttributeError when the definition has none).
ShowHeading ==
    /\ info_pc = "start"
    /\ IF ~Registered(command_name)
       THEN info_rc' = 1 /\ info_pc' = "returned" /\ info_idx' = info_idx
       ELSE IF "package" \notin attrs
       THEN info_rc' = info_rc /\ info_pc' = "raised" /\ info_idx' = info_idx
       ELSE info_rc' = info_rc /\ info_pc' = "listing" /\ info_idx' = 1
    /\ UNCHANGED << attrs, listed >>
    /\ UNCHANGED << core_but_reg, reg_vars, api_vars, leg_vars, run_vars, thr_vars >>

\* One line of the list.
ShowEntry ==
    /\ info_pc = "listing"
    /\ info_idx <= Len(commands[command_name].environment)
    /\ listed' = listed \o ListedEntry(commands[command_name], info_idx)
    /\ info_idx' = info_idx + 1
    /\ UNCHANGED << attrs, info_rc, info_pc >>
    /\ UNCHANGED << core_but_reg, reg_vars, api_vars, leg_vars, run_vars, thr_vars >>

\* The lines after the list, which read cmd.envoy_env_dir, and return 0.
ShowReturn ==
    /\ info_pc = "listing"
    /\ info_idx > Len(commands[command_name].environment)
    /\ IF "envoy_env_dir" \notin attrs
       THEN info_rc' = info_rc /\ info_pc' = "raised"
       ELSE info_rc' = 0 /\ info_pc' = "returned"
    /\ UNCHANGED << attrs, listed, info_idx >>
    /\ UNCHANGED << core_but_reg, reg_vars, api_vars, leg_vars, run_vars, thr_vars >>

NextInfo ==
    \/ ShowHeading
    \/ ShowEntry
    \/ ShowReturn

SpecInfo == InitInfo /\ [][NextInfo]_vars

(* ------------------------------------------------------------------ *)
(* gt.app.wrapper: ApplicationWrapper._prepare_environment             *)
(* ------------------------------------------------------------------ *)

\* _normalize_path: on Windows every slash becomes a backslash.
RECURSIVE _normalize_path(_, _)
_normalize_path(path, name_of_os) ==
    IF name_of_os # "nt" \/ path = "" THEN path
    ELSE (IF CharAt(path, 1) = "/" THEN "\\" ELSE CharAt(path, 1))
         \o _normalize_path(SubSeq(path, 2, Len(path)), name_of_os)

NormalizeAll(items, name_of_os) ==
    [ i \in 1..Len(items) |-> _normalize_path(items[i], name_of_os) ]

\* The match of \{\$([A-Za-z_][A-Za-z0-9_]*)\} at position i, if any.
LegacyMatchAt(s, i) ==
    LET open == SubSeq(s, i, IF i + 1 <= Len(s) THEN i + 1 ELSE Len(s))
        j    == IdentRunEnd(s, i + 2)
    IN  IF /\ open = "{$"
           /\ CharAt(s, i + 2) \in IdentStart
           /\ CharAt(s, j + 1) = "}"
        THEN [ok |-> TRUE, name |-> SubSeq(s, i + 2, j), next |-> j + 2]
        ELSE [ok |-> FALSE, name |-> "", next |-> i + 1]

\* replacer(match): current_env first, then os.environ, else ''.
LegacyReplacer(name, current_env, host) ==
    IF name \in DOMAIN current_env THEN current_env[name]
    ELSE IF name \in DOMAIN host THEN host[name]
    ELSE ""

\* pattern.sub(replacer, value)
RECURSIVE LegacyExpandFrom(_, _, _, _)
LegacyExpandFrom(value, i, current_env, host) ==
    IF i > Len(value) THEN ""
    ELSE LET m == LegacyMatchAt(value, i)
         IN  IF m.ok
             THEN LegacyReplacer(m.name, current_env, host)
                    \o LegacyExpandFrom(value, m.next, current_env, host)
             ELSE CharAt(value, i) \o LegacyExpandFrom(value, i + 1, current_env, host)

_expand_env_value(value, current_env, host) == LegacyExpandFrom(value, 1, current_env, host)

\* _process_env_value: a list is normalised item by item and joined with
\* the path separator, anything else is normalised as a string; the result
\* is expanded.
_process_env_value(value, merged, host, name_of_os) ==
    _expand_env_value(IF value.t = "list"
                      THEN Join(NormalizeAll(value.l, name_of_os), PathSep(name_of_os))
                      ELSE _normalize_path(value.s, name_of_os),
                      merged, host)

\* The operator prefix of a key: += and ^= only.
LegacyParseKey(k) ==
    IF StartsWith(k, "+=") THEN [mode |-> "append", name |-> DropPrefix(k, 2)]
    ELSE IF StartsWith(k, "^=") THEN [mode |-> "prepend", name |-> DropPrefix(k, 2)]
    ELSE [mode |-> "assign", name |-> k]

\* merged_env.get(var_name) or os.environ.get(var_name, '')
LegacyCurrent(m, name, host) ==
    IF name \in DOMAIN m /\ m[name] # "" THEN m[name]
    ELSE IF name \in DOMAIN host THEN host[name]
    ELSE ""

\* The working map after one key of a file.
LegacyApply(m, mode, name, pv, current_value, sep) ==
    IF mode = "append"
    THEN DictSet(m, name, IF current_value # "" THEN current_value \o sep \o pv ELSE pv)
    ELSE IF mode = "prepend"
    THEN DictSet(m, name, IF current_value # "" THEN pv \o sep \o current_value ELSE pv)
    ELSE DictSet(m, name, pv)

\* for key, value in file_env.items(), from item i on.
RECURSIVE LegacyEntries(_, _, _, _, _)
LegacyEntries(m, f, i, host, name_of_os) ==
    IF i > Len(f.entries) THEN m
    ELSE LET pk == LegacyParseKey(f.entries[i].key)
         IN  LegacyEntries(
                 LegacyApply(m, pk.mode, pk.name,
                             _process_env_value(f.entries[i].value, m, host, name_of_os),
                             LegacyCurrent(m, pk.name, host), PathSep(name_of_os)),
                 f, i + 1, host, name_of_os)

\* for file_path in env_files, from file i on: WrapperError for a file that
\* is missing, is not JSON or is not an object.
RECURSIVE LegacyLoadFiles(_, _, _, _, _)
LegacyLoadFiles(m, files, i, host, name_of_os) ==
    IF i > Len(files) THEN [ error |-> "", loaded |-> m ]
    ELSE IF ~files[i].exists \/ ~files[i].json_ok \/ files[i].top # "dict"
    THEN [ error |-> "WrapperError", loaded |-> << >> ]
    ELSE LegacyLoadFiles(LegacyEntries(m, files[i], 1, host, name_of_os),
                         files, i + 1, host, name_of_os)

\* _load_env_from_files(): {} when the configuration names no file.
_load_env_from_files(files, host, name_of_os) ==
    IF files = <<>> THEN [ error |-> "", loaded |-> << >> ]
    ELSE LegacyLoadFiles(<< >>, files, 1, host, name_of_os)

\* env.update(file_env) and env.update(self.config.env) over the copy of
\* the host environment or over {}.
LegacyMerge(from_files, inherit, explicit, host) ==
    IF from_files.error # ""
    THEN [ error |-> from_files.error ]
    ELSE [ error |-> "",
           child_env |-> DictUpdate(DictUpdate(IF inherit THEN host ELSE << >>,
                                               from_files.loaded), explicit) ]

\* _prepare_environment()
_prepare_environment(inherit, files, explicit, host, name_of_os) ==
    LegacyMerge(_load_env_from_files(files, host, name_of_os), inherit, explicit, host)

\* An environment file of the legacy wrapper.
LegacyFile(name, exists, json_ok, top, entries) ==
    [ path |-> << "w", name >>, exists |-> exists, json_ok |-> json_ok, top |-> top,
      entries |-> entries ]

\* The files: a reference to a host variable, += and ^= on variables the
\* host may have, assignments and references among them, a reference in
\* the form the legacy pattern does not know, and files that do not load.
LegacyCatalogue ==
    { LegacyFile("ref.json", TRUE, TRUE, "dict", << Entry("Q", StrV("{$SECRET}/x")) >>),
      LegacyFile("append.json", TRUE, TRUE, "dict", << Entry("+=P", StrV("d")) >>),
      LegacyFile("prepend.json", TRUE, TRUE, "dict",
                 << Entry("^=HOME", ListV(<< "a/b", "c" >>)) >>),
      LegacyFile("plain.json", TRUE, TRUE, "dict",
                 << Entry("P", StrV("")), Entry("R", StrV("{$P}-{$NOPE}")),
                    Entry("+=R", StrV("e")) >>),
      LegacyFile("dollar.json", TRUE, TRUE, "dict", << Entry("S", StrV("${SECRET}")) >>),
      LegacyFile("list.json", TRUE, TRUE, "list", <<>>),
      LegacyFile("missing.json", FALSE, FALSE, "scalar", <<>>) }

\* A wrapper configured with files and an explicit dict, under a host.
InitLegacy ==
    /\ EnvironmentIdle
    /\ RegistryIdle
    /\ ExpandIdle
    /\ ThreadsIdle
    /\ LoadIdle
    /\ BuildIdle
    /\ ApiIdle
    /\ CliIdle
    /\ RunIdle
    /\ SharedIdle
    /\ leg_environ \in HostEnvs
    /\ leg_os \in { "posix", "nt" }
    /\ leg_inherit \in BOOLEAN
    /\ leg_files \in SeqsUpTo(LegacyCatalogue, MaxFiles)
    /\ leg_explicit \in ExplicitEnvs
    /\ leg_result = [ error |-> "" ]
    /\ leg_pc = "start"

\* wrapper._prepare_environment()
PrepareEnvironment ==
    /\ leg_pc = "start"
    /\ leg_result' = _prepare_environment(leg_inherit, leg_files, leg_explicit,
                                          leg_environ, leg_os)
    /\ leg_pc' = "prepared"
    /\ UNCHANGED << leg_environ, leg_os, leg_inherit, leg_files, leg_explicit >>
    /\ UNCHANGED << core_but_bld, bld_vars, api_vars, cli_vars, run_vars, thr_vars >>

NextLegacy == PrepareEnvironment

SpecLegacy == InitLegacy /\ [][NextLegacy]_vars

(* ------------------------------------------------------------------ *)
(* gt.app.wrapper: ApplicationWrapper.run, and run_command around it   *)
(* ------------------------------------------------------------------ *)

Callbacks == { "none", "ok", "fails" }

\* The status of a child ended by _terminate_process (SIGTERM).
Terminated == -15

\* The statuses a child ends with by itself.
ChildCodes == { 0, 3 }

\* The configurations of a direct run().
RunConfigs ==
    [ pre_run : Callbacks, post_run : Callbacks,
      continue_on_pre_run_error : BOOLEAN, continue_on_post_run_error : BOOLEAN,
      raise_on_error : BOOLEAN, timeout : BOOLEAN, stream_output : BOOLEAN ]

\* The configuration run_command builds: no callback, no timeout,
\* stream_output=True; raise_on_error and the rest keep their defaults.
CliConfigs ==
    { c \in RunConfigs :
        /\ c.pre_run = "none" /\ c.post_run = "none" /\ ~c.timeout /\ c.stream_output
        /\ ~c.continue_on_pre_run_error /\ c.continue_on_post_run_error }

\* result = ExecutionResult(return_code=-1, command=[])
NewResult == [ return_code |-> -1, timed_out |-> FALSE ]

\* The WrapperError subclasses run() raises.
WrapperErrors == { "PreRunError", "PostRunError", "ExecutionError" }

\* The run_* variables no step of the run changes.
run_fixed == << run_config, run_via >>

InitRun ==
    /\ EnvironmentIdle
    /\ RegistryIdle
    /\ ExpandIdle
    /\ ThreadsIdle
    /\ LoadIdle
    /\ BuildIdle
    /\ ApiIdle
    /\ CliIdle
    /\ LegacyIdle
    /\ SharedIdle
    /\ run_via \in { "run", "run_command" }
    /\ run_config \in (IF run_via = "run" THEN RunConfigs ELSE CliConfigs)
    /\ run_pc = (IF run_via = "run" THEN "pre_run" ELSE "lookup")
    /\ _process = FALSE
    /\ _interrupted = FALSE
    /\ sigint_handler = "default"
    /\ _original_sigint_handler = "none"
    /\ child_state = "none"
    /\ child_code = 0
    /\ run_result = NewResult
    /\ run_pending = ""
    /\ post_runs = <<>>
    /\ run_trail = {}
    /\ run_end = ""
    /\ run_rc = 0

\* What `except Exception` leaves travelling: ExecutionError when
\* raise_on_error, nothing otherwise.
AfterExcept(config) == IF config.raise_on_error THEN "ExecutionError" ELSE ""

\* The child after _terminate_process(): ended, with the signal's status
\* unless it had ended before.
TerminatedState(state) == "exited"
TerminatedCode(state, code) == IF state = "exited" THEN code ELSE Terminated

\* run_command up to the WrapperConfig: 1 for a command that is not
\* registered and, without packages, for an environment file that is
\* missing; with packages a file no package holds is left out.
RunCommandLookup ==
    /\ run_pc = "lookup"
    /\ \E found \in BOOLEAN, with_packages \in BOOLEAN, files_exist \in BOOLEAN :
         IF ~found
         THEN /\ run_rc' = 1 /\ run_pc' = "done"
              /\ run_trail' = run_trail \cup { "not_registered" }
         ELSE IF ~with_packages /\ ~files_exist
         THEN /\ run_rc' = 1 /\ run_pc' = "done"
              /\ run_trail' = run_trail \cup { "file_missing" }
         ELSE /\ run_rc' = run_rc /\ run_pc' = "pre_run"
              /\ run_trail' = run_trail \cup
                     (IF files_exist THEN {} ELSE { "file_left_out" })
    /\ UNCHANGED << run_fixed, _process, _interrupted, sigint_handler,
                    _original_sigint_handler, child_state, child_code, run_result,
                    run_pending, post_runs, run_end >>
    /\ UNCHANGED << core_but_bld, bld_vars, api_vars, cli_vars, leg_vars, thr_vars >>

\* self._execute_pre_run()
ExecutePreRun ==
    /\ run_pc = "pre_run"
    /\ IF run_config.pre_run = "fails" /\ ~run_config.continue_on_pre_run_error
       THEN /\ run_pending' = "PreRunError" /\ run_pc' = "finally"
            /\ run_trail' = run_trail \cup { "pre_run_failed" }
       ELSE /\ run_pending' = run_pending /\ run_pc' = "prepare"
            /\ run_trail' = run_trail
    /\ UNCHANGED << run_fixed, _process, _interrupted, sigint_handler,
                    _original_sigint_handler, child_state, child_code, run_result,
                    post_runs, run_end, run_rc >>
    /\ UNCHANGED << core_but_bld, bld_vars, api_vars, cli_vars, leg_vars, thr_vars >>

\* _prepare_command() and _prepare_environment(): a WrapperError for an
\* executable that is not found and for an env file that does not load,
\* taken by `except Exception`.
PrepareExecution ==
    /\ run_pc = "prepare"
    /\ \E exe_found \in BOOLEAN, env_loads \in BOOLEAN :
         IF exe_found /\ env_loads
         THEN /\ run_pending' = run_pending /\ run_pc' = "enter_context"
              /\ run_trail' = run_trail
         ELSE /\ run_pending' = AfterExcept(run_config) /\ run_pc' = "finally"
              /\ run_trail' = run_trail \cup
                     { IF ~exe_found THEN "exe_not_found" ELSE "env_failed" }
    /\ UNCHANGED << run_fixed, _process, _interrupted, sigint_handler,
                    _original_sigint_handler, child_state, child_code, run_result,
                    post_runs, run_end, run_rc >>
    /\ UNCHANGED << core_but_bld, bld_vars, api_vars, cli_vars, leg_vars, thr_vars >>

\* with self._signal_handler_context(): on the way in.
EnterSignalContext ==
    /\ run_pc = "enter_context"
    /\ _original_sigint_handler' = sigint_handler
    /\ sigint_handler' = "_handle_signal"
    /\ run_pc' = "popen"
    /\ UNCHANGED << run_fixed, _process, _interrupted, child_state, child_code,
                    run_result, run_pending, post_runs, run_trail, run_end, run_rc >>
    /\ UNCHANGED << core_but_bld, bld_vars, api_vars, cli_vars, leg_vars, thr_vars >>

\* self._process = subprocess.Popen(...): an OSError leaves the context
\* (the handler is put back) and is taken by `except Exception`.
Popen ==
    /\ run_pc = "popen"
    /\ \E spawn_ok \in BOOLEAN :
         IF spawn_ok
         THEN /\ _process' = TRUE /\ child_state' = "running"
              /\ run_pc' = (IF run_config.stream_output THEN "stream" ELSE "wait")
              /\ UNCHANGED << sigint_handler, run_pending, run_trail >>
         ELSE /\ sigint_handler' = _original_sigint_handler
              /\ run_pending' = AfterExcept(run_config) /\ run_pc' = "finally"
              /\ run_trail' = run_trail \cup { "spawn_failed" }
              /\ UNCHANGED << _process, child_state >>
    /\ UNCHANGED << run_fixed, _interrupted, _original_sigint_handler, child_code,
                    run_result, post_runs, run_end, run_rc >>
    /\ UNCHANGED << core_but_bld, bld_vars, api_vars, cli_vars, leg_vars, thr_vars >>

\* The child closes its output and goes on running.
ChildClosesPipes ==
    /\ child_state = "running"
    /\ child_state' = "quiet"
    /\ UNCHANGED << run_fixed, run_pc, _process, _interrupted, sigint_handler,
                    _original_sigint_handler, child_code, run_result, run_pending,
                    post_runs, run_trail, run_end, run_rc >>
    /\ UNCHANGED << core_but_bld, bld_vars, api_vars, cli_vars, leg_vars, thr_vars >>

\* The child ends by itself.
ChildExits ==
    /\ child_state \in { "running", "quiet" }
    /\ child_state' = "exited"
    /\ child_code' \in ChildCodes
    /\ UNCHANGED << run_fixed, run_pc, _process, _interrupted, sigint_handler,
                    _original_sigint_handler, run_result, run_pending,
                    post_runs, run_trail, run_end, run_rc >>
    /\ UNCHANGED << core_but_bld, bld_vars, api_vars, cli_vars, leg_vars, thr_vars >>

\* self._stream_output(self._process): returns at the end of both pipes;
\* the print of a line it read raises when sys.stdout does not take it, and
\* that exception leaves the context and is taken by `except Exception`.
StreamOutput ==
    /\ run_pc = "stream"
    /\ \/ /\ child_state \in { "quiet", "exited" }
          /\ run_pc' = "wait"
          /\ UNCHANGED << sigint_handler, run_pending, run_trail >>
       \/ /\ sigint_handler' = _original_sigint_handler
          /\ run_pending' = AfterExcept(run_config) /\ run_pc' = "finally"
          /\ run_trail' = run_trail \cup { "print_failed" }
    /\ UNCHANGED << run_fixed, _process, _interrupted, _original_sigint_handler,
                    child_state, child_code, run_result, post_runs, run_end, run_rc >>
    /\ UNCHANGED << core_but_bld, bld_vars, api_vars, cli_vars, leg_vars, thr_vars >>

\* result.return_code after the wait: -2 for an interrupted run.
ReturnCodeOf(return_code, interrupted) == IF interrupted THEN -2 ELSE return_code

\* self._process.wait(timeout=...), the return code and the way out of
\* the context: the child's status, or TimeoutExpired, _terminate_process()
\* and -1.
Wait ==
    /\ run_pc = "wait"
    /\ \/ /\ child_state = "exited"
          /\ run_result' = [ return_code |-> ReturnCodeOf(child_code, _interrupted),
                              timed_out |-> FALSE ]
          /\ UNCHANGED << child_state, child_code, run_trail >>
       \/ /\ child_state # "exited" /\ run_config.timeout
          /\ child_state' = TerminatedState(child_state)
          /\ child_code' = TerminatedCode(child_state, child_code)
          /\ run_result' = [ return_code |-> ReturnCodeOf(-1, _interrupted),
                              timed_out |-> TRUE ]
          /\ run_trail' = run_trail \cup { "timeout" }
    /\ sigint_handler' = _original_sigint_handler
    /\ run_pc' = "finally"
    /\ UNCHANGED << run_fixed, _process, _interrupted, _original_sigint_handler,
                    run_pending, post_runs, run_end, run_rc >>
    /\ UNCHANGED << core_but_bld, bld_vars, api_vars, cli_vars, leg_vars, thr_vars >>

\* Where a KeyboardInterrupt raised by the default handler is followed.
BeforeContext == { "pre_run", "prepare", "enter_context" }

\* SIGINT reaches the process, once: _handle_signal when the context has
\* installed it (_interrupted, and the child terminated when _process is
\* set), KeyboardInterrupt out of the try block otherwise.
Sigint ==
    /\ "sigint" \notin run_trail
    /\ run_trail' = run_trail \cup { "sigint" }
    /\ \/ /\ sigint_handler = "_handle_signal"
          /\ run_pc \in { "popen", "stream", "wait" }
          /\ _interrupted' = TRUE
          /\ child_state' = (IF _process THEN TerminatedState(child_state) ELSE child_state)
          /\ child_code' = (IF _process THEN TerminatedCode(child_state, child_code)
                                         ELSE child_code)
          /\ UNCHANGED << run_pc, run_pending >>
       \/ /\ sigint_handler = "default"
          /\ run_pc \in BeforeContext
          /\ run_pending' = "KeyboardInterrupt"
          /\ run_pc' = "finally"
          /\ UNCHANGED << _interrupted, child_state, child_code >>
    /\ UNCHANGED << run_fixed, _process, sigint_handler, _original_sigint_handler,
                    run_result, post_runs, run_end, run_rc >>
    /\ UNCHANGED << core_but_bld, bld_vars, api_vars, cli_vars, leg_vars, thr_vars >>

\* The exception out of the finally block: PostRunError of a failing
\* post_run unless continue_on_post_run_error, else the one travelling.
AfterPostRun(config, pending) ==
    IF config.post_run = "fails" /\ ~config.continue_on_post_run_error
    THEN "PostRunError"
    ELSE pending

\* finally: self._process = None and self._execute_post_run(result).
Finally ==
    /\ run_pc = "finally"
    /\ _process' = FALSE
    /\ post_runs' = (IF run_config.post_run = "none" THEN post_runs
                     ELSE Append(post_runs, child_state))
    /\ run_pending' = AfterPostRun(run_config, run_pending)
    /\ IF AfterPostRun(run_config, run_pending) # ""
       THEN /\ run_end' = AfterPostRun(run_config, run_pending)
            /\ run_pc' = "run_done"
       ELSE /\ run_end' = run_end
            /\ run_pc' = "check"
    /\ UNCHANGED << run_fixed, _interrupted, sigint_handler, _original_sigint_handler,
                    child_state, child_code, run_result, run_trail, run_rc >>
    /\ UNCHANGED << core_but_bld, bld_vars, api_vars, cli_vars, leg_vars, thr_vars >>

\* The run failed as far as the check after the finally block looks.
Failed(res) == res.timed_out \/ res.return_code # 0

\* if self.config.raise_on_error and not result.success: ... return result.
\* ExecutionResult.success is either value for a failed run.
CheckAndReturn ==
    /\ run_pc = "check"
    /\ \E success \in BOOLEAN :
         /\ ( ~Failed(run_result) => success )
         /\ run_end' = (IF run_config.raise_on_error /\ ~success /\ Failed(run_result)
                        THEN "ExecutionError" ELSE "returned")
    /\ run_pc' = "run_done"
    /\ UNCHANGED << run_fixed, _process, _interrupted, sigint_handler,
                    _original_sigint_handler, child_state, child_code, run_result,
                    run_pending, post_runs, run_trail, run_rc >>
    /\ UNCHANGED << core_but_bld, bld_vars, api_vars, cli_vars, leg_vars, thr_vars >>

\* What run_command returns for the way run() ended.
ExitCodeOf(ended, res) ==
    IF ended = "returned" THEN res.return_code
    ELSE IF ended \in WrapperErrors THEN 1
    ELSE 130

\* return result.return_code / except WrapperError / except KeyboardInterrupt
RunCommandReturn ==
    /\ run_pc = "run_done"
    /\ run_via = "run_command"
    /\ run_rc' = ExitCodeOf(run_end, run_result)
    /\ run_pc' = "done"
    /\ UNCHANGED << run_fixed, _process, _interrupted, sigint_handler,
                    _original_sigint_handler, child_state, child_code, run_result,
                    run_pending, post_runs, run_trail, run_end >>
    /\ UNCHANGED << core_but_bld, bld_vars, api_vars, cli_vars, leg_vars, thr_vars >>

NextRun ==
    \/ RunCommandLookup
    \/ ExecutePreRun
    \/ PrepareExecution
    \/ EnterSignalContext
    \/ Popen
    \/ ChildClosesPipes
    \/ ChildExits
    \/ StreamOutput
    \/ Wait
    \/ Sigint
    \/ Finally
    \/ CheckAndReturn
    \/ RunCommandReturn

SpecRun == InitRun /\ [][NextRun]_vars

(* ------------------------------------------------------------------ *)
(* Properties of the environment composition (under Spec)              *)
(* ------------------------------------------------------------------ *)

\* The working map of the composition in progress.
Merged == heap[merged_env]

\* The last entry applied.
Last == applied[Len(applied)]

\* The variable names some file entry has been applied to.
EntryNames == { applied[i].name : i \in 1..Len(applied) }

\* The names some file of the list declares in environment_allowlist.
FileAllowlistNames ==
    UNION { Range(FileAllowlist(env_files[i])) : i \in 1..Len(env_files) }

\* C1: in closed mode every variable of the map prepare_environment returns
\* is named by a file entry or by the explicit env dict, or is a core
\* variable, one of envoy's own, or in the caller's or some file's
\* allowlist; no other host variable is in the output.
C1_NoHostLeakClosed ==
    (pc = "done" /\ ~inherit_env) =>
        \A v \in DOMAIN heap[result_env] :
            v \in EntryNames \cup DOMAIN env \cup _CORE_ENV_VARS \cup _ENVOY_ENV_VARS
                     \cup allowlist \cup FileAllowlistNames

\* A closed-mode result that kept the host's SECRET out while a core
\* variable and a file-allowlisted P came through from the host.
C1_Witness ==
    /\ pc = "done" /\ ~inherit_env
    /\ "SECRET" \in DOMAIN os_environ
    /\ "SECRET" \notin DOMAIN heap[result_env]
    /\ "HOME" \in DOMAIN heap[result_env]
    /\ "P" \in DOMAIN heap[result_env]
    /\ "P" \notin EntryNames \cup allowlist
    /\ heap[result_env]["P"] = os_environ["P"]

\* C2: when two files assign the same variable with a bare key, the later
\* one after the earlier, and no later entry names the variable, the
\* composed value is the later file's processed value, whatever the base
\* map held.
C2_LaterAssignWins ==
    pc = "returned" =>
        \A i \in 1..Len(applied), j \in 1..Len(applied) :
            ( /\ applied[i].file < applied[j].file
              /\ applied[i].mode = "assign" /\ applied[j].mode = "assign"
              /\ applied[i].name = applied[j].name
              /\ \A k \in (j + 1)..Len(applied) : applied[k].name # applied[j].name )
            => /\ applied[j].name \in DOMAIN heap[file_env]
               /\ heap[file_env][applied[j].name] = applied[j].value

\* Two files assigned P different values over a base map that held a third.
C2_Witness ==
    /\ pc = "returned"
    /\ Len(applied) = 2
    /\ applied[1].file = 1 /\ applied[2].file = 2
    /\ applied[1].mode = "assign" /\ applied[2].mode = "assign"
    /\ applied[1].name = "P" /\ applied[2].name = "P"
    /\ applied[1].value # applied[2].value
    /\ "P" \in DOMAIN base_at_call
    /\ base_at_call["P"] \notin { applied[1].value, applied[2].value }
    /\ heap[file_env]["P"] = applied[2].value

\* C3: from the call of load_env_from_files to its return or its raise,
\* the caller's base_env holds exactly what it held at the call.
C3_BaseEnvUntouched ==
    pc \in {"parse", "seed", "file", "entry", "returned", "raised"} =>
        heap[base_env] = base_at_call

\* A composition that ended, by return or by raise, with a working map
\* different from a non-empty base map.
C3_Witness ==
    /\ pc \in {"returned", "raised"}
    /\ applied # <<>>
    /\ base_at_call # EmptyDict
    /\ Merged # base_at_call
    /\ heap[base_env] = base_at_call

\* An entry applied before the last one wrote the variable name.
WrittenEarlier(name) ==
    \E k \in 1..(Len(applied) - 1) :
        applied[k].name = name /\ applied[k].mode # "default"

\* The last entry is a += or ^= on a variable that a later file
\* allowlists, that the base map lacks and the host has.
SeededForEarlierFile ==
    /\ applied # <<>>
    /\ Last.mode \in {"append", "prepend"}
    /\ \E j \in (Last.file + 1)..Len(env_files) :
          Last.name \in Range(FileAllowlist(env_files[j]))
    /\ Last.name \notin DOMAIN base_at_call
    /\ Last.name \in DOMAIN os_environ

\* C4 as stated: such an entry always finds the host's value as the
\* current value.
C4_Original ==
    SeededForEarlierFile =>
        /\ Last.name \in DOMAIN env_before
        /\ env_before[Last.name] = os_environ[Last.name]

\* C4, amended: such an entry finds the variable present, and finds the
\* host's value as the current value unless an earlier entry wrote it.
C4_SeedingPrecedesEntries ==
    SeededForEarlierFile =>
        /\ Last.name \in DOMAIN env_before
        /\ ~WrittenEarlier(Last.name) => env_before[Last.name] = os_environ[Last.name]

\* The first file appended to P, which only the second file allowlists.
C4_Witness ==
    /\ SeededForEarlierFile
    /\ Len(applied) = 1 /\ Last.file = 1 /\ Last.name = "P" /\ Last.mode = "append"
    /\ "P" \notin Range(FileAllowlist(env_files[1]))
    /\ env_before["P"] = "seed"
    /\ Merged["P"] = "seed" \o PathSep(os_name) \o Last.value

\* C5: a += or ^= on a variable that is absent or empty leaves exactly the
\* processed operand, with no separator before or after it.
C5_AppendToEmpty ==
    ( /\ applied # <<>>
      /\ Last.mode \in {"append", "prepend"}
      /\ (Last.name \notin DOMAIN env_before \/ env_before[Last.name] = "") )
    => /\ Merged[Last.name] = processed_value
       /\ processed_value = process_env_value(
              env_files[Last.file].entries[Last.idx].value, env_before,
              get_special_variables(env_files[Last.file].path), os_name)

\* A ^= met P present and empty, a += met it absent.
C5_Witness ==
    /\ Len(applied) = 2
    /\ applied[1].mode = "assign" /\ applied[1].name = "P" /\ applied[1].value = ""
    /\ Last.mode = "prepend" /\ Last.name = "P"
    /\ "P" \in DOMAIN env_before /\ env_before["P"] = ""
    /\ Merged["P"] = "d"

\* The entries applied to name, in order of application.
RECURSIVE EntriesOf(_, _)
EntriesOf(name, n) ==
    IF n = 0 THEN <<>>
    ELSE IF applied[n].name = name
         THEN Append(EntriesOf(name, n - 1), applied[n])
         ELSE EntriesOf(name, n - 1)

Reverse(s) == [ i \in 1..Len(s) |-> s[Len(s) + 1 - i] ]

Operands(es) == [ i \in 1..Len(es) |-> es[i].value ]

\* C6: with a non-empty current value c, += v leaves c SEP v and ^= v
\* leaves v SEP c, SEP being the separator that joins list values; so k
\* appends leave the operands in order after the first current value, and
\* k prepends leave them in reverse order before it.
C6_AppendPrependOrder ==
    /\ ( applied # <<>> /\ Last.current # "" ) =>
          /\ Last.mode = "append" =>
                Merged[Last.name] = Last.current \o PathSep(os_name) \o Last.value
          /\ Last.mode = "prepend" =>
                Merged[Last.name] = Last.value \o PathSep(os_name) \o Last.current
    /\ \A name \in EntryNames :
          LET es == EntriesOf(name, Len(applied))
          IN  es[1].current # "" =>
                /\ (\A i \in 1..Len(es) : es[i].mode = "append") =>
                      Merged[name] = Join(<<es[1].current>> \o Operands(es), PathSep(os_name))
                /\ (\A i \in 1..Len(es) : es[i].mode = "prepend") =>
                      Merged[name] = Join(Reverse(Operands(es)) \o <<es[1].current>>,
                                          PathSep(os_name))

\* On Windows, a list and then a string were appended to a non-empty P.
C6_Witness ==
    /\ os_name = "nt"
    /\ Len(applied) = 2
    /\ applied[1].mode = "append" /\ applied[2].mode = "append"
    /\ applied[1].name = "P" /\ applied[2].name = "P"
    /\ applied[1].current = "base"
    /\ Merged["P"] = "base;b;c;b;c"

\* C7: a ?= entry writes its value when the variable is not a key of the
\* working map and changes nothing when it is, whatever put it there and
\* also when its value is the empty string.
C7_DefaultKeepsPresent ==
    ( applied # <<>> /\ Last.mode = "default" ) =>
        IF Last.name \in DOMAIN env_before
        THEN Merged = env_before
        ELSE Merged = DictSet(env_before, Last.name, processed_value)

\* A ?= met P present with the empty string and left it so.
C7_Witness ==
    /\ applied # <<>>
    /\ Last.mode = "default" /\ Last.name = "P"
    /\ "P" \in DOMAIN env_before /\ env_before["P"] = ""
    /\ Last.value # ""
    /\ Merged["P"] = ""

(* ------------------------------------------------------------------ *)
(* Properties of reference resolution (under SpecResolve)              *)
(* ------------------------------------------------------------------ *)

\* The commands a registered command refers to.
Refs(c) ==
    IF Registered(c)
    THEN { e \in Range(commands[c].environment) : IsReference(e) }
    ELSE {}

\* The names reachable from the names in S along references, S included.
RECURSIVE ReachableFrom(_)
ReachableFrom(S) ==
    LET T == S \cup UNION { Refs(c) : c \in S }
    IN  IF T = S THEN S ELSE ReachableFrom(T)

\* Some command reachable from c refers, directly or not, to itself.
CycleReachable(c) ==
    \E n \in ReachableFrom({c}) : n \in ReachableFrom(Refs(n))

\* c and every reference reachable from it are registered.
AllReachableRegistered(c) == \A n \in ReachableFrom({c}) : Registered(n)

\* The depth-first, left-to-right flattening of command c's environment
\* list from entry i on: a file with the directory of the command that
\* lists it, a reference replaced by the flattening of its command.
RECURSIVE FlattenFrom(_, _)
FlattenFrom(c, i) ==
    IF i > Len(commands[c].environment) THEN <<>>
    ELSE LET entry == commands[c].environment[i]
         IN  (IF IsReference(entry)
              THEN FlattenFrom(entry, 1)
              ELSE << << entry, commands[c].envoy_env_dir >> >>)
             \o FlattenFrom(c, i + 1)

FileNamesOf(pairs) == [ i \in 1..Len(pairs) |-> pairs[i][1] ]
EnvDirsOf(pairs) == [ i \in 1..Len(pairs) |-> pairs[i][2] ]

\* C8 as stated: resolution of a command from which a cycle is reachable
\* never ends otherwise than by the circular-reference error.
C8_Original ==
    ( /\ CycleReachable(command_name)
      /\ caller = "resolve_environment"
      /\ res_pc \in {"resolved", "raised"} )
    => (res_pc = "raised" /\ res_error = "circular")

\* C8, amended: when a cycle is reachable from the command, resolution
\* ends, and ends by raising: the circular-reference error, or the
\* unknown-reference error, the latter only when some reference reachable
\* from the command is not registered.
C8_CycleRaises ==
    ( res_pc = "resolving" /\ CycleReachable(command_name) )
    ~> ( /\ res_pc = "raised"
         /\ \/ res_error = "circular"
            \/ res_error = "unknown" /\ ~AllReachableRegistered(command_name) )

\* The cycle a -> b -> a was reported, two calls deep.
C8_Witness ==
    /\ res_pc = "raised" /\ res_error = "circular"
    /\ "b" \in Refs("a") /\ "a" \in Refs("b")
    /\ "a" \notin Refs("a")
    /\ commands["a"].environment[1] = "b"
    /\ commands["b"].environment[1] = "a"

\* C9: with no cycle reachable and every reference registered, resolution
\* returns, and the file names it returns are the depth-first,
\* left-to-right flattening of the command's environment list.
C9_DepthFirstFlattening ==
    ( /\ \/ res_error \in {"circular", "unknown", "RecursionError", "CommandNotFoundError"}
         \/ res_pc = "resolved"
      /\ ~CycleReachable(command_name)
      /\ AllReachableRegistered(command_name) ) =>
        /\ res_error \notin {"circular", "unknown", "RecursionError", "CommandNotFoundError"}
        /\ res_pc = "resolved" =>
              FileNamesOf(resolved_env) = FileNamesOf(FlattenFrom(command_name, 1))

\* a lists b and then a file, b lists c and then a file, c lists a file:
\* three levels, spliced in order.
C9_Witness ==
    /\ res_pc = "resolved"
    /\ commands["a"].environment = << "b", "y.json" >>
    /\ commands["b"].environment = << "c", "y.json" >>
    /\ commands["c"].environment = << "x.json" >>
    /\ FileNamesOf(resolved_env) = << "x.json", "y.json", "y.json" >>

\* The resolved pairs as paths, each under the directory it carries.
PathsOf(pairs) == [ i \in 1..Len(pairs) |-> JoinPath(pairs[i][2], pairs[i][1]) ]

\* The last n elements of s.
LastN(s, n) == SubSeq(s, Len(s) - n + 1, Len(s))

\* C10: every returned pair carries the directory of the command whose own
\* environment list holds the file name, and single-file collection builds
\* each path from the directory of its pair.
C10_OwnerDirectory ==
    /\ res_pc \in {"resolved", "collected"} =>
          EnvDirsOf(resolved_env) = EnvDirsOf(FlattenFrom(command_name, 1))
    /\ res_pc = "collected" =>
          /\ Len(collected) >= Len(resolved_env)
          /\ LastN(collected, Len(resolved_env)) = PathsOf(FlattenFrom(command_name, 1))

\* Collected for a: a file of b's, under b's directory, before a file of
\* a's own of the same name, under a's.
C10_Witness ==
    /\ res_pc = "collected"
    /\ commands["a"].environment = << "b", "x.json" >>
    /\ commands["b"].environment = << "x.json" >>
    /\ LastN(collected, 2) = << <<"b2", "envoy_env", "x.json">>, <<"b1", "envoy_env", "x.json">> >>

\* C11: a call of resolve_environment for a name that is not registered,
\* be it the command asked for or a reference the walk has come to, raises
\* the unknown-reference error; every active call is unwound and no list is
\* returned, whatever the calls had gathered. A resolution that returns has
\* found every reference registered.
C11_UnknownReferenceRaises ==
    [][ /\ ( res_pc = "resolving" /\ ~Registered(Top.command_name) ) =>
              /\ res_pc' = "raised"
              /\ res_error' = "unknown"
              /\ stack' = <<>>
              /\ resolved_env' = <<>>
        /\ ( res_pc = "resolving" /\ res_pc' = "resolved" ) =>
              AllReachableRegistered(command_name) ]_vars

\* a had gathered a file when it came to the unregistered c: the error,
\* and no list.
C11_Witness ==
    /\ caller = "resolve_environment"
    /\ res_pc = "raised" /\ res_error = "unknown"
    /\ Registered("a") /\ ~Registered("c")
    /\ commands["a"].environment = << "x.json", "c" >>
    /\ resolved_env = <<>>

(* ------------------------------------------------------------------ *)
(* Further properties of the environment composition (Spec, SpecRefs) *)
(* ------------------------------------------------------------------ *)

\* Hosts g and h agree on the names in S: the same ones set, to the same values.
AgreeOn(g, h, S) ==
    \A v \in S : /\ (v \in DOMAIN g) = (v \in DOMAIN h)
                 /\ v \in DOMAIN g => g[v] = h[v]

\* The names prepare_environment and the file allowlists seed from host h.
SeededNames(h) ==
    FileAllowlistNames \cup
        (IF inherit_env THEN DOMAIN h \cup DOMAIN os_environ
         ELSE _CORE_ENV_VARS \cup _ENVOY_ENV_VARS \cup allowlist)

\* The file item the last applied entry came from.
LastItem == env_files[Last.file].entries[Last.idx]

\* The text of a lone reference to name.
RefTo(name) == "${" \o name \o "}"

\* C12: the composition reads the host only through the seed. The map
\* load_env_from_files returns is the one it returns under any host that
\* agrees with this one on the names the file allowlists seed, and the map
\* prepare_environment returns is the one it returns under any host that
\* agrees on all seeded names. A lone reference to a host variable that is
\* neither in the working map nor special expands to the empty string, and
\* += and ^= take their current value from the working map alone.
C12_HostOnlyThroughSeed ==
    /\ pc = "returned" =>
          \A h \in OtherHostEnvs(os_environ) :
              AgreeOn(h, os_environ, FileAllowlistNames) =>
                  ComposeLoad(env_files, base_at_call, h, os_name) = heap[file_env]
    /\ pc = "done" =>
          \A h \in OtherHostEnvs(os_environ) :
              AgreeOn(h, os_environ, SeededNames(h)) =>
                  ComposePrepare(env_files, h, inherit_env, allowlist, env, os_name)
                      = heap[result_env]
    /\ applied # <<>> =>
          /\ \A n \in DOMAIN os_environ :
                ( /\ LastItem.value = StrV(RefTo(n))
                  /\ n \notin DOMAIN env_before
                  /\ n \notin DOMAIN get_special_variables(env_files[Last.file].path) )
                => Last.value = ""
          /\ Last.mode \in {"append", "prepend"} =>
                LET c == IF Last.name \in DOMAIN env_before THEN env_before[Last.name] ELSE ""
                IN  Merged[Last.name] =
                        IF c = "" THEN Last.value
                        ELSE IF Last.mode = "append"
                             THEN c \o LoadPathSep(os_name) \o Last.value
                             ELSE Last.value \o LoadPathSep(os_name) \o c

\* Over an empty base map, Z took the file's own Y and U took nothing from
\* the host's SECRET.
C12_Witness ==
    /\ pc = "returned"
    /\ entry_point = "load_env_from_files"
    /\ base_at_call = EmptyDict
    /\ Len(env_files) = 1
    /\ "SECRET" \in DOMAIN os_environ /\ os_environ["SECRET"] # ""
    /\ LET out == heap[file_env]
       IN  /\ {"Y", "Z", "U"} \subseteq DOMAIN out
           /\ out["Y"] = "fromfile"
           /\ out["Z"] = "fromfile"
           /\ out["U"] = ""

\* The special variables of the file the last applied entry came from.
LastSpecials == get_special_variables(env_files[Last.file].path)

SpecialNames == { "__FILE__", "__BUNDLE__", "__BUNDLE_ENV__", "__BUNDLE_NAME__" }

\* The names the files and maps of the model use.
KnownNames == SpecialNames \cup { "P", "Q", "Y", "Z", "U", "W", "X", "SECRET", "HOME" }

\* What a reference to name n stood for when the last entry was expanded:
\* the file's special variable, else the working map's value, else nothing.
LookedUp(n) ==
    IF n \in SpecialNames THEN LastSpecials[n]
    ELSE IF n \in DOMAIN env_before THEN env_before[n]
    ELSE ""

\* The legacy form of a reference to name.
LegacyRefTo(name) == "{$" \o name \o "}"

\* C13: a reference to NAME expands to the file's special variable when
\* NAME is one of the four special names, else to the working map's value
\* when NAME is a key of it, else to the empty string, in both forms of
\* reference; so a key of the working map named like a special variable
\* (from the base map or an earlier assignment) is never what the
\* reference expands to.
C13_SpecialsFirst ==
    ( /\ applied # <<>>
      /\ LastItem.value.t = "str"
      /\ Len(LastItem.value.s) >= 4
      /\ SubSeq(LastItem.value.s, 1, 2) \in {"${", "{$"} )
    => LET s == LastItem.value.s
           n == SubSeq(s, 3, Len(s) - 1)
       IN  /\ DOMAIN LastSpecials = SpecialNames
           /\ ( n \in KnownNames /\ s \in { RefTo(n), LegacyRefTo(n) } ) =>
                 Last.value = LookedUp(n)
           /\ HasChar(s, "/") =>
                 \A a \in KnownNames, b \in KnownNames :
                     s = RefTo(a) \o "/" \o LegacyRefTo(b)
                         => Last.value = LookedUp(a) \o "/" \o LookedUp(b)
           /\ ( n \in SpecialNames /\ s = RefTo(n) /\ n \in DOMAIN env_before ) =>
                 Last.value = get_special_variables(env_files[Last.file].path)[n]

\* After the file assigned "fake" to __FILE__, ${__FILE__} still expanded
\* to the file's path.
C13_Witness ==
    /\ applied # <<>>
    /\ LastItem.value = StrV("${__FILE__}")
    /\ "__FILE__" \in DOMAIN env_before /\ env_before["__FILE__"] = "fake"
    /\ Last.value = "/b1/envoy_env/refs.json"
    /\ Merged["W"] = "/b1/envoy_env/refs.json"

\* The items of the files in the order of the file list, each with its
\* file and its place in it.
RECURSIVE ItemsInOrder(_, _)
ItemsInOrder(files, i) ==
    IF i > Len(files) THEN <<>>
    ELSE [ j \in 1..Len(files[i].entries) |-> [file |-> i, idx |-> j] ]
            \o ItemsInOrder(files, i + 1)

\* The working map after the first n applied entries, from the seeded copy
\* of the base map on.
RECURSIVE MapAfter(_)
MapAfter(n) ==
    IF n = 0 THEN SeedFiles(base_at_call, env_files, 1, os_environ)
    ELSE ApplyOperator(MapAfter(n - 1), applied[n].mode, applied[n].name,
                       applied[n].value, LoadPathSep(os_name))

\* C16: entries are applied in the order of the file list and, within a
\* file, in the order of the file; at return every entry has been applied
\* once. The value of each entry is expanded against the working map that
\* the entries before it left, so it sees what they wrote and nothing that
\* a later entry writes.
C16_EntriesInOrder ==
    LET order == ItemsInOrder(env_files, 1)
    IN  /\ Len(applied) <= Len(order)
        /\ \A k \in 1..Len(applied) :
              applied[k].file = order[k].file /\ applied[k].idx = order[k].idx
        /\ applied # <<>> =>
              /\ env_before = MapAfter(Len(applied) - 1)
              /\ Merged = ApplyOperator(env_before, Last.mode, Last.name, Last.value,
                                        LoadPathSep(os_name))
              /\ Last.value =
                    process_env_value(LastItem.value, env_before, LastSpecials, os_name)
        /\ pc = "returned" /\ env_files # <<>> => Len(applied) = Len(order)

\* After a file that set P to a, a second file set P to x, prepended
\* ${P} and set P to y: the reference saw x, neither a nor y.
C16_Witness ==
    /\ pc = "returned"
    /\ Len(env_files) = 2
    /\ Len(applied) = 4
    /\ applied[1].file = 1 /\ applied[1].name = "P" /\ applied[1].value = "a"
    /\ applied[2].file = 2 /\ applied[2].value = "x"
    /\ applied[3].file = 2 /\ applied[3].key = "^=P" /\ applied[3].value = "x"
    /\ applied[4].file = 2 /\ applied[4].value = "y"
    /\ heap[file_env]["P"] = "y"

\* The pre-pass is over and no entry has been applied yet.
JustSeeded == pc = "file" /\ file_idx = 1 /\ applied = <<>>

\* C17: the pre-pass adds exactly the allowlisted names that the base map
\* lacks and the host has, each with the host's value; every variable of
\* the base map keeps its value, the empty string included, and a name the
\* host lacks is not added.
C17_SeedOnlyAbsent ==
    JustSeeded =>
        /\ DOMAIN Merged =
              DOMAIN base_at_call \cup (FileAllowlistNames \cap DOMAIN os_environ)
        /\ \A v \in DOMAIN base_at_call : Merged[v] = base_at_call[v]
        /\ \A v \in DOMAIN Merged \ DOMAIN base_at_call : Merged[v] = os_environ[v]

\* The file allowlists P and HOME; the base map has P, the host has
\* another P and no HOME: P kept the base value and HOME was not added.
C17_Witness ==
    /\ JustSeeded
    /\ {"P", "HOME"} \subseteq FileAllowlistNames
    /\ "P" \in DOMAIN base_at_call /\ base_at_call["P"] = "base"
    /\ "P" \in DOMAIN os_environ /\ os_environ["P"] = "seed"
    /\ "HOME" \notin DOMAIN os_environ
    /\ Merged = [P |-> "base"]

\* The names declared in environment_allowlist by the structured files of
\* the list, those with an "environment" key.
StructuredAllowlistNames ==
    UNION { Range(env_files[i].allowlist) :
              i \in { j \in 1..Len(env_files) :
                         env_files[j].top = "dict" /\ env_files[j].has_environment } }

\* C18: only a structured file's environment_allowlist seeds: every
\* variable the pre-pass has added to the working map is declared by a
\* file that has an "environment" key, so the key in a flat file seeds
\* nothing.
C18_FlatAllowlistIgnored ==
    JustSeeded =>
        \A v \in DOMAIN Merged \ DOMAIN base_at_call : v \in StructuredAllowlistNames

\* C19: the name every applied entry writes is a non-empty identifier.
C19_NamesAreIdentifiers ==
    \A k \in 1..Len(applied) : IsIdentifier(applied[k].name)

(* ------------------------------------------------------------------ *)
(* Properties of expand_env_value (under SpecExpand)                   *)
(* ------------------------------------------------------------------ *)

\* s holds no ${NAME} and no {$NAME}.
NoReference(s) == \A i \in 1..Len(s) : ~MatchAt(s, i).ok

\* C14 as stated: expanding the result of an expansion again, with the
\* same lookup, gives that result.
C14_Original ==
    exp_pc = "again" => reexpanded = expanded

\* C14, amended: expanding the result of an expansion again, with the same
\* lookup, gives that result whenever the result holds no reference.
C14_IdempotentWithoutReference ==
    ( exp_pc = "again" /\ NoReference(expanded) ) => reexpanded = expanded

\* A reference was replaced, the result kept a dollar sign and an open
\* brace that form no reference, and the second expansion changed nothing.
C14_Witness ==
    /\ exp_pc = "again"
    /\ tmpl = "${A}${"
    /\ lookup_special = EmptyDict
    /\ "A" \in DOMAIN lookup_env /\ lookup_env["A"] = "x"
    /\ expanded = "x${"
    /\ NoReference(expanded)
    /\ reexpanded = expanded

\* What a reference to n stands for under the lookup of the call.
LookupOf(n) ==
    IF n \in DOMAIN lookup_special THEN lookup_special[n]
    ELSE IF n \in DOMAIN lookup_env THEN lookup_env[n]
    ELSE ""

\* A piece after the substitution: a reference gives its looked-up value
\* as it is, any other piece itself.
PieceValue(piece) ==
    IF piece = "${A}" THEN LookupOf("A")
    ELSE IF piece = "{$B}" THEN LookupOf("B")
    ELSE piece

\* C15: one pass. In a value put together from references and from text
\* that closes no reference of its own, each reference is replaced by its
\* looked-up value exactly as it is, also when that value holds reference
\* syntax, and everything else is kept.
C15_SinglePass ==
    ( exp_pc \in {"expanded", "again"} /\ "A}" \notin Range(tmpl_pieces) ) =>
        expanded = Join([ i \in 1..Len(tmpl_pieces) |-> PieceValue(tmpl_pieces[i]) ], "")

\* A held the text of a reference to B, which had a value: ${A} became
\* that text, not the value of B.
C15_Witness ==
    /\ exp_pc = "expanded"
    /\ tmpl = "x${A}{$B}"
    /\ lookup_special = EmptyDict
    /\ DOMAIN lookup_env = {"A", "B"}
    /\ lookup_env["A"] = "${B}" /\ lookup_env["B"] = "x"
    /\ expanded = "x${B}x"

(* ------------------------------------------------------------------ *)
(* Properties of concurrent compositions (under SpecPair)              *)
(* ------------------------------------------------------------------ *)

\* The working map of a call running alone that stands where thread t
\* stands: the copy of the base map, seeded once the pre-pass is over,
\* with the files before the current one applied and the items of the
\* current one before the next.
SoloMap(t) ==
    LET r      == runs[t]
        seeded == SeedFiles(base_at_call, env_files, 1, os_environ)
        before == ApplyFiles(seeded, SubSeq(env_files, 1, r.file_idx - 1), 1, os_name)
    IN  IF r.pc \in {"parse", "seed"} THEN base_at_call
        ELSE IF r.pc = "file" THEN before
        ELSE ApplyEntries(before,
                          [ env_files[r.file_idx] EXCEPT
                              !.entries = SubSeq(@, 1, r.entry_idx - 1) ],
                          1, os_name)

\* C20: two calls of load_env_from_files with the same files, base map and
\* host, run one after the other or interleaved step by step, return equal
\* maps, the map the composition function gives for those inputs; at every
\* point the working map of each call is what it would be had the call run
\* alone, the working maps are distinct objects and none is the base map,
\* which keeps its contents.
C20_RunsDoNotInterfere ==
    /\ \A t \in DOMAIN runs :
          /\ runs[t].pc \in InProgress =>
                /\ heap[runs[t].merged_env] = SoloMap(t)
                /\ runs[t].merged_env # base_env
          /\ runs[t].pc = "returned" =>
                heap[runs[t].file_env] =
                    ComposeLoad(env_files, base_at_call, os_environ, os_name)
    /\ \A t \in DOMAIN runs, u \in DOMAIN runs :
          /\ ( t # u /\ runs[t].merged_env # 0 ) => runs[t].merged_env # runs[u].merged_env
          /\ ( runs[t].pc = "returned" /\ runs[u].pc = "returned" ) =>
                heap[runs[t].file_env] = heap[runs[u].file_env]
    /\ runs # <<>> => heap[base_env] = base_at_call

\* Both calls returned after steps of each were taken inside the other's
\* call; each prepended to, and then replaced, a P that the base map had.
C20_Witness ==
    /\ runs # <<>>
    /\ \A t \in Threads : runs[t].pc = "returned" /\ runs[t].overlapped
    /\ Len(env_files) = 2
    /\ env_files[1].path = <<"b1", "envoy_env", "append.json">>
    /\ env_files[2].path = <<"tmp", "pairs.json">>
    /\ base_at_call = [P |-> "base"]
    /\ runs["t1"].file_env # runs["t2"].file_env
    /\ heap[runs["t1"].file_env] = [P |-> "y"]
    /\ heap[runs["t2"].file_env] = [P |-> "y"]

(* ------------------------------------------------------------------ *)
(* The seed of prepare_environment (under Spec)                        *)
(* ------------------------------------------------------------------ *)

\* The names closed mode may take from the host.
SeedableNames == _CORE_ENV_VARS \cup _ENVOY_ENV_VARS \cup allowlist

\* C21: the base map prepare_environment hands to load_env_from_files is,
\* in closed mode, the host environment restricted to the core names,
\* envoy's own and the caller's allowlist (a listed name the host lacks is
\* not seeded); in inherited mode it has the keys and values of the whole
\* host environment. It is result_env, an object of its own.
C21_SeedIsRestriction ==
    (entry_point = "prepare_environment" /\ pc \notin {"prepare", "done"}) =>
        /\ base_env = result_env
        /\ DOMAIN heap[result_env] =
              IF inherit_env THEN DOMAIN os_environ
              ELSE SeedableNames \cap DOMAIN os_environ
        /\ \A n \in DOMAIN heap[result_env] : heap[result_env][n] = os_environ[n]
        /\ pc # "load" => base_at_call = heap[result_env]

\* A closed-mode call whose caller lists P while the host has no P: HOME
\* is seeded, P and SECRET are not.
C21_Witness ==
    /\ entry_point = "prepare_environment" /\ pc = "file"
    /\ ~inherit_env
    /\ allowlist = {"P"} /\ "P" \notin DOMAIN os_environ
    /\ "HOME" \in DOMAIN os_environ
    /\ DOMAIN heap[result_env] = {"HOME", "ENVOY_BNDL_ROOTS"}

(* ------------------------------------------------------------------ *)
(* Collection in single-file mode (under SpecResolve)                  *)
(* ------------------------------------------------------------------ *)

\* C25: once the single-file collector has looked at the disk, either every
\* resolved pair's path env_dir/file_name is on disk and the list it
\* returns ends with those paths in resolution order, or some path is
\* missing and the call has raised EnvironmentBuildError without a list.
C25_MissingFileFails ==
    (caller = "_collect_env_files" /\ disk # {}) =>
        IF \A i \in 1..Len(resolved_env) : PathsOf(resolved_env)[i] \in disk
        THEN /\ res_pc = "collected" /\ res_error = ""
             /\ LastN(collected, Len(resolved_env)) = PathsOf(resolved_env)
             /\ Len(collected) <= Len(resolved_env) + 1
        ELSE /\ res_pc = "raised" /\ res_error = "EnvironmentBuildError"
             /\ collected = <<>>

\* a lists a file of its own, which is on disk, and then b, whose file is
\* not: the error, and no list.
C25_Witness ==
    /\ caller = "_collect_env_files" /\ disk # {}
    /\ res_pc = "raised" /\ res_error = "EnvironmentBuildError"
    /\ Len(resolved_env) = 2
    /\ PathsOf(resolved_env)[1] \in disk
    /\ PathsOf(resolved_env)[2] \notin disk

(* ------------------------------------------------------------------ *)
(* Files and references (under SpecDots)                               *)
(* ------------------------------------------------------------------ *)

\* The basename of the entry holds a dot.
DotInBasename(entry) ==
    \E i \in 1..Len(Basename(entry)) : CharAt(Basename(entry), i) = "."

\* The entry the innermost call is about to process.
EntryAtHand == commands[Top.command_name].environment[Top.i]

AtEntry ==
    /\ res_pc = "resolving" /\ Top.i >= 1
    /\ Top.i <= Len(commands[Top.command_name].environment)

\* C26: an entry whose basename holds a dot is emitted as a file, paired
\* with the directory of the command that lists it, and no call is made for
\* it, even when a command of that name is registered; an entry whose
\* basename holds no dot is resolved by a nested call for that very name,
\* and nothing is emitted for it.
C26_DotDecides ==
    [][ AtEntry =>
          IF DotInBasename(EntryAtHand)
          THEN /\ Len(stack') = Len(stack)
               /\ stack'[Len(stack)].result =
                     Append(Top.result, << EntryAtHand, commands[Top.command_name].envoy_env_dir >>)
               /\ stack'[Len(stack)].i = Top.i + 1
               /\ res_pc' = "resolving"
          ELSE \/ /\ Len(stack') = Len(stack) + 1
                  /\ stack'[Len(stack')].command_name = EntryAtHand
                  /\ stack'[Len(stack)] = Top
               \/ res_pc' = "raised" /\ res_error' = "RecursionError" ]_vars

\* a lists "x.json", a registered command: resolution returned it as a file
\* of a's directory, and what the command "x.json" itself lists is absent.
C26_Witness ==
    /\ res_pc = "resolved"
    /\ "x.json" \in DOMAIN commands
    /\ commands["a"].environment = << "x.json", "d.v/a" >>
    /\ "d.v/a" \in DOMAIN commands
    /\ commands["d.v/a"].environment = << "x.json" >>
    /\ resolved_env = << << "x.json", EnvDirs["a"] >>, << "x.json", EnvDirs["b"] >> >>

(* ------------------------------------------------------------------ *)
(* Properties of registry loading (under SpecLoad)                     *)
(* ------------------------------------------------------------------ *)

\* The file can be loaded: it is there, and is a JSON object.
Loadable(cf) == cf.exists /\ cf.json_ok /\ cf.top = "dict"

\* The entry's value is an object with an environment that is a list and
\* an alias that is absent, null or a list.
ValidlyDefined(e) ==
    /\ e.config.is_dict
    /\ e.config.has_environment /\ e.config.environment.t = "list"
    /\ e.config.alias.t \in {"absent", "null", "list"}

\* The command names the file validly defines.
ValidNames(cf) ==
    IF Loadable(cf)
    THEN { cf.entries[i].name : i \in { j \in 1..Len(cf.entries) : ValidlyDefined(cf.entries[j]) } }
    ELSE {}

\* The definition the file gives for name n, loaded for the given bundle.
DefinitionFrom(cf, n, bundle) ==
    LET e == CHOOSE x \in Range(cf.entries) : x.name = n
    IN  [ name |-> n,
          environment |-> e.config.environment.l,
          alias |-> IF e.config.alias.t = "list" THEN e.config.alias ELSE NullV,
          bundle |-> bundle,
          envoy_env_dir |-> cf.dir ]

\* The positions of the bundles of the list that validly define n.
Definers(n) == { i \in 1..Len(bundles) : n \in ValidNames(bundles[i].commands_json) }

Greatest(S) == CHOOSE i \in S : \A j \in S : j <= i

\* C22: the command map and the source map always have the same keys, and
\* when load_from_bundles has returned, every name that bundles of the list
\* validly define has the definition of the last of them in list order:
\* its environment, alias, bundle id and envoy_env directory, with that
\* bundle's id as its recorded source. Nothing else is registered.
C22_LastBundleWins ==
    /\ DOMAIN _commands = DOMAIN _bundle_sources
    /\ load_pc = "loaded" =>
          /\ DOMAIN _commands = { n \in {"maya", "nuke", "houdini", "bad", "noenv"} : Definers(n) # {} }
          /\ \A n \in DOMAIN _commands :
                LET b == bundles[Greatest(Definers(n))]
                IN  /\ _commands[n] = DefinitionFrom(b.commands_json, n, bndlid(b))
                    /\ _commands[n].envoy_env_dir = b.envoy_env
                    /\ _bundle_sources[n] = bndlid(b)

\* gt:one and gt:two define maya, vfx:one has an entry for it that is not
\* valid: maya is gt:two's, nuke stays gt:one's.
C22_Witness ==
    /\ load_pc = "loaded"
    /\ Len(bundles) = 3
    /\ bndlid(bundles[1]) = "gt:one" /\ bndlid(bundles[2]) = "gt:two"
    /\ bndlid(bundles[3]) = "vfx:one"
    /\ Definers("maya") = {1, 2}
    /\ _commands["maya"].bundle = "gt:two"
    /\ _commands["maya"].alias = ListV(<<"maya.bat", "-x">>)
    /\ _bundle_sources["maya"] = "gt:two"
    /\ _bundle_sources["nuke"] = "gt:one"

\* C23: a call of load_from_file on a commands.json that is a JSON object
\* does not raise, and registers exactly the entries that are validly
\* defined, each with its own definition; the other entries are skipped,
\* and every command the file does not validly define is as it was before
\* the call.
C23_ExactlyValidEntries ==
    (last_load.called /\ Loadable(last_load.commands_file)) =>
        LET cf     == last_load.commands_file
            before == last_load.before.commands
        IN  /\ ~last_load.raised
            /\ DOMAIN _commands = DOMAIN before \cup ValidNames(cf)
            /\ \A n \in DOMAIN _commands :
                  _commands[n] = IF n \in ValidNames(cf)
                                 THEN DefinitionFrom(cf, n, last_load.bundle_name)
                                 ELSE before[n]

\* The bare commands.json was loaded over the bundles: its nuke and tool
\* are registered, around a maya entry whose alias is a string; maya stays
\* the bundle's.
C23_Witness ==
    /\ load_pc = "file_loaded"
    /\ last_load.bundle_name = ""
    /\ Len(last_load.commands_file.entries) = 3
    /\ ~ValidlyDefined(last_load.commands_file.entries[2])
    /\ "maya" \in DOMAIN last_load.before.commands
    /\ _commands["maya"].bundle = "gt:two"
    /\ _commands["nuke"].bundle = "" /\ _bundle_sources["nuke"] = "local"
    /\ "tool" \in DOMAIN _commands

(* ------------------------------------------------------------------ *)
(* Properties of Environment (under SpecBuild)                          *)
(* ------------------------------------------------------------------ *)

\* The last build ran _collect_env_files in multi-bundle mode.
CollectedFromBundles == last_build.ran /\ last_build.mode = "multi-bundle"

\* The bundles and the resolved file names of the last build.
BuiltBundles == last_build.bundles.list
ResolvedNames ==
    LET pairs == resolve_environment(last_build.commands, _command, {}).pairs
    IN  [ i \in 1..Len(pairs) |-> pairs[i][1] ]

\* The places a path may come from: << 0, 0, b >> is the global_env.json
\* of bundle b, << 1, i, b >> the i-th resolved name in bundle b.
Places ==
    { << 0, 0, b >> : b \in { k \in 1..Len(BuiltBundles) :
                               "global_env.json" \in BuiltBundles[k].env_files } }
    \cup
    { pl \in { 1 } \X (1..Len(ResolvedNames)) \X (1..Len(BuiltBundles)) :
         ResolvedNames[pl[2]] \in BuiltBundles[pl[3]].env_files }

\* Globals first, then by resolved name, then by bundle.
PlaceBefore(p, q) ==
    \/ p[1] < q[1]
    \/ p[1] = q[1] /\ p[2] < q[2]
    \/ p[1] = q[1] /\ p[2] = q[2] /\ p[3] < q[3]

PlaceRank(p) == Cardinality({ q \in Places : PlaceBefore(q, p) }) + 1

PlacePath(p) ==
    JoinPath(BuiltBundles[p[3]].envoy_env,
             IF p[1] = 0 THEN "global_env.json" ELSE ResolvedNames[p[2]])

\* C24: in multi-bundle mode the collected list is the global_env.json of
\* every bundle that has one, in bundle order, followed, for each resolved
\* file name in resolution order, by the indexed path of that name in each
\* bundle that has it, in bundle order: one path per place and no other.
C24_BundleCollectionOrder ==
    CollectedFromBundles =>
        /\ Len(last_build.env_files) = Cardinality(Places)
        /\ \A p \in Places : last_build.env_files[PlaceRank(p)] = PlacePath(p)

\* nuke is built over gt:two, vfx:one and gt:one: the two global files come
\* first, maya_env.json comes from both bundles that have it, and
\* nuke_env.json from vfx:one.
C24_Witness ==
    /\ CollectedFromBundles
    /\ _command = "nuke"
    /\ Len(BuiltBundles) = 3
    /\ last_build.env_files =
          << JoinPath(EnvoyEnvOf("vfx", "one"), "global_env.json"),
             JoinPath(EnvoyEnvOf("gt", "one"), "global_env.json"),
             JoinPath(EnvoyEnvOf("gt", "two"), "maya_env.json"),
             JoinPath(EnvoyEnvOf("gt", "one"), "maya_env.json"),
             JoinPath(EnvoyEnvOf("vfx", "one"), "nuke_env.json") >>

\* The errors build() is documented to raise.
BuildErrors == { "CommandNotFoundError", "EnvironmentBuildError" }

\* C28: every failure of a build for a command name is raised as
\* CommandNotFoundError or EnvironmentBuildError; no call on the instance
\* ends with a bare WrapperError.
C28_BuildErrorsWrapped ==
    /\ api_error # "WrapperError"
    /\ last_build.ran => last_build.error \in BuildErrors \cup { "" }

\* C29: over any sequence of calls on one instance, discovery runs at most
\* once, the environment is prepared at most once, and all the calls of
\* build() that return, return the same dict.
C29_BuiltAtMostOnce ==
    /\ discoveries <= 1
    /\ prepared <= 1
    /\ \A i, j \in 1..Len(build_returns) : build_returns[i] = build_returns[j]

\* _load_registry took the fallback and returned commands of the file.
ReturnedFromFile ==
    /\ last_build.ran /\ last_build.seeded_from_file
    /\ last_build.error # "WrapperError"
    /\ DOMAIN last_build.commands # {}

\* C30: whenever the registry _load_registry returns was seeded from the
\* bare commands.json, the bundles it returns are None, and the files are
\* not collected in multi-bundle mode.
C30_FallbackReturnsNone ==
    ReturnedFromFile =>
        /\ last_build.bundles.is_none
        /\ last_build.mode # "multi-bundle"

\* A process was started for a registered command.
StartedRegistered == spawned.started /\ ~spawned.raw

\* alias[1:] of the definition the instance holds.
AliasTail == IF _cmd_def.alias.t = "list" /\ _cmd_def.alias.l # <<>>
             THEN Tail(_cmd_def.alias.l) ELSE <<>>

\* The executable, its base arguments and the caller's arguments.
PlainVector == << spawned.resolved >> \o AliasTail \o spawned.args

\* The resolved executables of the catalogue that are batch files.
BatchFiles == { "maya.bat", "/bin/maya.bat", "RUN.CMD", "/bin/RUN.CMD" }

\* C27 as stated: the vector of a registered command is the resolved
\* executable, then alias[1:], then the caller's arguments; the executable
\* looked for is alias[0] of an alias, the command name without one.
C27_Original ==
    StartedRegistered =>
        /\ spawned.argv = PlainVector
        /\ _cmd_def.alias.t = "null" => spawned.asked = _cmd_def.name
        /\ (_cmd_def.alias.t = "list" /\ _cmd_def.alias.l # <<>>) =>
              spawned.asked = _cmd_def.alias.l[1]

\* C27: the vector of a registered command is the resolved executable,
\* then alias[1:], then the caller's arguments, behind "cmd", "/c" when
\* the platform is Windows and the resolved executable is a .bat or .cmd
\* file; the executable looked for is alias[0] of an alias that is not
\* empty, the command name otherwise.
C27_VectorBehindCmd ==
    StartedRegistered =>
        /\ spawned.argv = IF platform = "nt" /\ spawned.resolved \in BatchFiles
                          THEN << "cmd", "/c" >> \o PlainVector
                          ELSE PlainVector
        /\ spawned.asked = IF _cmd_def.alias.t = "list" /\ _cmd_def.alias.l # <<>>
                           THEN _cmd_def.alias.l[1]
                           ELSE _cmd_def.name

\* On Windows maya of gt:two, whose alias is maya.bat -x, is started with
\* -v and resolves to /bin/maya.bat.
C27_Witness ==
    /\ StartedRegistered
    /\ platform = "nt"
    /\ _cmd_def.alias = ListV(<< "maya.bat", "-x" >>)
    /\ spawned.resolved = "/bin/maya.bat"
    /\ spawned.argv = << "cmd", "/c", "/bin/maya.bat", "-x", "-v" >>

\* ---------------------------------------------------------------------
\* Properties of the resolver's visited set (under SpecResolve)
\* ---------------------------------------------------------------------

\* The names of the calls below call k, with k's own once it has passed its
\* checks: the reference path that leads to call k.
PathNames(k) ==
    { stack[j].command_name : j \in 1..(k - 1) }
        \cup (IF stack[k].i >= 1 THEN { stack[k].command_name } ELSE {})

\* How many reference paths lead from command c (entry i on) to command d.
RECURSIVE PathsTo(_, _, _)
PathsTo(c, i, d) ==
    IF i > Len(commands[c].environment) THEN 0
    ELSE LET entry == commands[c].environment[i]
         IN  (IF ~IsReference(entry) THEN 0
              ELSE IF entry = d THEN 1
              ELSE PathsTo(entry, 1, d))
             + PathsTo(c, i + 1, d)

PathCount(c, d) == IF c = d THEN 1 ELSE PathsTo(c, 1, d)

\* The files command d lists itself.
OwnFiles(d) ==
    Cardinality({ i \in 1..Len(commands[d].environment) :
                    ~IsReference(commands[d].environment[i]) })

\* The pairs of a resolved list that carry d's directory.
PairsOwnedBy(pairs, d) ==
    Cardinality({ i \in 1..Len(pairs) : pairs[i][2] = EnvDirs[d] })

\* C37: the visited set of every active call is the reference path that
\* leads to it, whatever earlier sibling branches have visited; the
\* circular-reference error is raised only when a cycle is reachable; and
\* with no cycle and every reference registered the resolved list holds the
\* files of a command once for each path that reaches it.
C37_SeenIsCurrentPath ==
    /\ \A k \in 1..Len(stack) : stack[k].seen = PathNames(k)
    /\ ( res_pc = "raised" /\ res_error = "circular" ) => CycleReachable(command_name)
    /\ ( /\ res_pc = "resolved"
         /\ ~CycleReachable(command_name)
         /\ AllReachableRegistered(command_name) ) =>
            \A d \in ReachableFrom({command_name}) :
                PairsOwnedBy(resolved_env, d) = PathCount(command_name, d) * OwnFiles(d)

\* The diamond a -> b -> c and a -> c resolved: c's file twice, no error.
C37_Witness ==
    /\ res_pc = "resolved" /\ res_error = ""
    /\ commands["a"].environment = << "b", "c" >>
    /\ commands["b"].environment = << "c" >>
    /\ commands["c"].environment = << "x.json" >>
    /\ resolved_env = << << "x.json", EnvDirs["c"] >>, << "x.json", EnvDirs["c"] >> >>

\* ---------------------------------------------------------------------
\* Properties of multi-bundle collection (under SpecBuild)
\* ---------------------------------------------------------------------

\* The resolved names of the last build that no bundle has in its index.
Unindexed ==
    { i \in 1..Len(ResolvedNames) :
        \A k \in 1..Len(BuiltBundles) : ResolvedNames[i] \notin BuiltBundles[k].env_files }

\* The last component of a path.
FileOf(path) == path[Len(path)]

\* C38: in multi-bundle mode a resolved file name that no bundle has in its
\* env-file index contributes no path to the collected list, and the
\* collection raises nothing for it: the build fails only when one of the
\* collected files cannot be loaded, and the files handed on are the
\* indexed ones only.
C38_UnindexedNameSkipped ==
    CollectedFromBundles =>
        /\ \A i \in Unindexed : \A j \in 1..Len(last_build.env_files) :
              FileOf(last_build.env_files[j]) # ResolvedNames[i]
        /\ last_build.error # "" =>
              /\ last_build.error = "EnvironmentBuildError"
              /\ PrepareFails(last_build.env_files, env_disk.broken)
        /\ ( last_build.error = "" /\ spawned.started ) => _env # 0

\* nuke over gt:one and gt:two resolves to maya2_env.json and
\* nuke_env.json; no bundle of the two has nuke_env.json, and nuke is
\* started with the global file and maya2_env.json.
C38_Witness ==
    /\ CollectedFromBundles
    /\ _command = "nuke"
    /\ Unindexed # {}
    /\ last_build.error = ""
    /\ Len(last_build.env_files) >= 1
    /\ spawned.started
    /\ api_error = ""

\* ---------------------------------------------------------------------
\* Properties of the keyword and cmd checks (under SpecApi)
\* ---------------------------------------------------------------------

\* The calls the checks are to refuse.
MustRaise(rq) ==
    \/ rq.fn \in { "Environment.call", "call" } /\ ( rq.stdout = "PIPE" \/ rq.stderr = "PIPE" )
    \/ rq.fn \in { "call", "spawn", "check_output" } /\ rq.cmd = <<>>

\* C32: Environment.call and the function call, asked for a PIPE on stdout
\* or stderr, and the functions call, spawn and check_output, given an
\* empty cmd list, raise ValueError, and the step that raises builds no
\* environment, discovers no bundle and starts no process.
C32_ChecksComeFirst ==
    [][ ( request'.fn # "" /\ request'.at = calls + 1 /\ calls' = calls + 1
          /\ MustRaise(request') ) =>
            /\ api_error' = "ValueError"
            /\ UNCHANGED << _env, _cmd_def, discoveries, prepared, last_build,
                            build_returns, spawned >> ]_vars

\* The first call on an instance is call(args, stderr=PIPE): ValueError,
\* no environment, no discovery, no process.
C32_Witness ==
    /\ request.fn = "Environment.call" /\ request.at = 1
    /\ request.stdout = "" /\ request.stderr = "PIPE"
    /\ api_error = "ValueError"
    /\ _env = 0 /\ discoveries = 0 /\ prepared = 0
    /\ ~spawned.started

\* ---------------------------------------------------------------------
\* Properties of repeated entries (under Spec)
\* ---------------------------------------------------------------------

\* The entry of the files that the k-th application took, as written.
Written(k) == env_files[applied[k].file].entries[applied[k].idx]

\* The last two applications were of the same ?= entry: the same key and
\* the same raw value, one right after the other.
DefaultTwice ==
    /\ Len(applied) >= 2
    /\ Last.mode = "default"
    /\ applied[Len(applied) - 1].mode = "default"
    /\ Written(Len(applied)) = Written(Len(applied) - 1)

\* C33: the second of two applications in a row of the same ?= entry
\* changes nothing: the working map after it is the working map after the
\* first, whatever map the first started from.
C33_DefaultTwiceIsOnce ==
    DefaultTwice => ( Merged = env_before /\ Last.name \in DOMAIN Merged )

\* default.json is loaded twice over a map without P: P is "e" after the
\* first and after the second.
C33_Witness ==
    /\ DefaultTwice
    /\ Last.key = "?=P"
    /\ applied[Len(applied) - 1].current = ""
    /\ Last.current = "e"
    /\ Merged["P"] = "e"

\* ---------------------------------------------------------------------
\* Properties of the special variables (under SpecRefs)
\* ---------------------------------------------------------------------

\* The special variables of the file the k-th application took its entry
\* from.
SpecialsAt(k) == get_special_variables(env_files[applied[k].file].path)

\* The maps load_env_from_files works on and returns.
LoadMaps ==
    (IF merged_env # 0 THEN { heap[merged_env] } ELSE {})
        \cup (IF file_env # 0 THEN { heap[file_env] } ELSE {})

\* C34: a special name is a key of the working map, and of the map
\* load_env_from_files returns, only when it is a key of the base map or
\* the variable of an entry applied so far; and a lone reference to a
\* special name, in either form, expands to the value computed from the
\* path of the file the entry stands in, whichever files came before.
C34_SpecialsStayInside ==
    /\ \A m \in LoadMaps : \A n \in SpecialNames \cap DOMAIN m :
          \/ n \in DOMAIN base_at_call
          \/ \E k \in 1..Len(applied) : applied[k].name = n
    /\ \A k \in 1..Len(applied) : \A n \in SpecialNames :
          Written(k).value \in { StrV(RefTo(n)), StrV(LegacyRefTo(n)) }
              => applied[k].value = SpecialsAt(k)[n]

\* refs.json is the second file, after expand.json of the same bundle:
\* its ${__FILE__} is its own path, and the map returned has __FILE__ only
\* as the file assigned it.
C34_Witness ==
    /\ pc = "returned"
    /\ Len(env_files) = 2
    /\ env_files[1].path # env_files[2].path
    /\ Last.file = 2
    /\ LastItem.value = StrV("${__FILE__}")
    /\ Last.value = "/b1/envoy_env/refs.json"
    /\ "__FILE__" \notin DOMAIN base_at_call
    /\ heap[file_env]["__FILE__"] = "fake"
    /\ DOMAIN heap[file_env] \cap SpecialNames = { "__FILE__" }

\* ---------------------------------------------------------------------
\* Properties of --info (under SpecInfo)
\* ---------------------------------------------------------------------

\* C35: what show_command_info lists for a registered command is the
\* resolved file list of the command: the files of a referenced command
\* stand where the reference is, and no listed entry is a reference to a
\* command.
C35_ListsResolvedFiles ==
    ( info_pc \in { "returned", "raised" } /\ Registered(command_name) ) =>
        /\ \A i \in 1..Len(listed) : ~IsReference(listed[i])
        /\ ( ~CycleReachable(command_name) /\ AllReachableRegistered(command_name) ) =>
              /\ info_pc = "returned"
              /\ listed = FileNamesOf(FlattenFrom(command_name, 1))

\* ---------------------------------------------------------------------
\* Properties of the legacy wrapper's environment (under SpecLegacy)
\* ---------------------------------------------------------------------

\* C40: with inherit_env false, the map _prepare_environment builds holds
\* only what the env files and the explicit dict give: it is the map built
\* under a host environment with no variable at all.
C40_NoHostValueLegacy ==
    ( leg_pc = "prepared" /\ ~leg_inherit ) =>
        leg_result = _prepare_environment(FALSE, leg_files, leg_explicit, << >>, leg_os)

\* ---------------------------------------------------------------------
\* Properties of ApplicationWrapper.run and run_command (under SpecRun)
\* ---------------------------------------------------------------------

\* run() has ended, by a return or by an exception.
RunEnded == run_pc \in { "run_done", "done" } /\ run_trail \cap { "not_registered", "file_missing" } = {}

\* C39: a run() with a post_run callback has called it exactly once when
\* it ends, whichever way it ends, and never while the child was still
\* running; _process is cleared and the handler of SIGINT is the one that
\* was installed before the run.
C39_PostRunOnceAfterChild ==
    /\ ( run_via # "" /\ run_config.post_run # "none" ) =>
          /\ Len(post_runs) <= 1
          /\ \A i \in 1..Len(post_runs) : post_runs[i] \in { "none", "exited" }
          /\ RunEnded => Len(post_runs) = 1
    /\ RunEnded => ( ~_process /\ sigint_handler = "default" )

\* C31: run_command returns 1 for a command that is not registered and
\* for an environment that cannot be built, 130 for a run interrupted from
\* the keyboard, and else the status the child ended with.
C31_ExitCodes ==
    ( run_pc = "done" ) =>
        IF run_trail \cap { "not_registered", "file_missing", "env_failed" } # {}
        THEN run_rc = 1
        ELSE IF "sigint" \in run_trail
        THEN run_rc = 130
        ELSE ( child_state = "exited" /\ "print_failed" \notin run_trail ) => run_rc = child_code

\* ---------------------------------------------------------------------
\* Properties of an Environment shared by threads (under SpecShared)
\* ---------------------------------------------------------------------

\* C36: whenever _env of the instance is set its _cmd_def is set too, and
\* the assert of spawn() never fails, however the calls of the threads
\* interleave.
C36_CmdDefSetWithEnv ==
    /\ ( _env # 0 => _cmd_def # [ none |-> TRUE ] )
    /\ assert_failed = {}

====
